---- MODULE Spec2Model ----
(***************************************************************************)
(* claw-router backend: the chat-completion orchestrator (handlers.rs),    *)
(* the router (router.rs), the state store (state.rs) and the response     *)
(* cache (cache.rs).                                                        *)
(***************************************************************************)
EXTENDS Integers, Sequences, FiniteSets, TLC

(***************************************************************************)
(* Bounds of the model.                                                    *)
(***************************************************************************)
\* number of chat-completion requests of one behaviour
MaxReqs == 2
\* number of requests that may be in flight at once
MaxInFlight == 2
\* last clock tick of one behaviour
MaxTime == 2
\* clock ticks per second: the wall clock is finer than the whole seconds
\* that num_seconds() and as_secs() return
TicksPerSec == 2
\* the ticks the clock may advance while the cache is exercised on its own
MaxCacheTime == 5
\* number of add_log calls while the log ring is exercised on its own
MaxLogCalls == 4
\* the POSTs of /api/config after the first of each client, and the boots,
\* while the configuration file is exercised on its own
MaxPosts == 2
MaxBoots == 1
\* the ticks the clock may advance while the session table is exercised on
\* its own
MaxSessionTime == 5

(***************************************************************************)
(* Program constants.                                                      *)
(***************************************************************************)
MAX_LOGS == 1000
\* unwrap_or(usize::MAX) of the tier position, unwrap_or(f64::MAX) of the cost:
\* larger than every position and every cost of the model
UsizeMax == 1000000
F64Max == 1000000

\* Option<T>: None is the empty sequence, Some(x) the one-element sequence
None == <<>>
Some(x) == <<x>>
IsSome(o) == o # <<>>
Unwrap(o) == o[1]
UnwrapOr(o, d) == IF o # <<>> THEN o[1] ELSE d

Range(s) == {s[i] : i \in 1..Len(s)}
Contains(s, x) == \E i \in 1..Len(s) : s[i] = x
\* iter().filter(pred).collect(): the members selected by keep, in order
RECURSIVE FilterIdx(_, _, _)
FilterIdx(s, keep, i) ==
    IF i > Len(s) THEN <<>>
    ELSE IF i \in keep THEN <<s[i]>> \o FilterIdx(s, keep, i + 1)
    ELSE FilterIdx(s, keep, i + 1)
\* iter().position(|t| t == x).unwrap_or(usize::MAX), zero-based
Position(s, x) ==
    IF Contains(s, x)
    THEN (CHOOSE i \in 1..Len(s) : s[i] = x /\ \A j \in 1..(i - 1) : s[j] # x) - 1
    ELSE UsizeMax

(***************************************************************************)
(* config.rs: the configuration data.                                      *)
(***************************************************************************)
Tier == {"Subscription", "Cheap", "Free", "PayPerRequest"}
ComplexityTier == {"Simple", "Medium", "Complex", "Reasoning"}

Model(id, icost, ocost) ==
    [id |-> id, input_cost_per_1m |-> icost, output_cost_per_1m |-> ocost]

\* api_key: None, or Some of a key; the key "bad" holds a byte no header
\* value may hold
Provider(id, name, kind, key, tier, enabled, priority, models) ==
    [id |-> id, name |-> name, provider_type |-> kind, api_key |-> key,
     tier |-> tier, enabled |-> enabled, priority |-> priority, models |-> models]

ModelMapping(mid, pid) == [model_id |-> mid, provider_id |-> pid]
\* HashMap::new()
EmptyMap == [k \in {} |-> ModelMapping("", "")]

RoutingProfile(name, tiers, mm, amm) ==
    [name |-> name, allowed_tiers |-> tiers, model_mapping |-> mm,
     agentic_model_mapping |-> amm]

SessionConfig(enabled, ttl) == [enabled |-> enabled, ttl_seconds |-> ttl]
CacheConfig(enabled, ttl) == [enabled |-> enabled, ttl_seconds |-> ttl]
SessionConfigDefault == SessionConfig(FALSE, 3600)
CacheConfigDefault == CacheConfig(FALSE, 3600)

(***************************************************************************)
(* router.rs                                                               *)
(***************************************************************************)
\* Router::parse_router_model: model_id.strip_prefix("router/"), over the
\* model ids of the model
parse_router_model(model_id) ==
    CASE model_id = "router/auto" -> Some("auto")
      [] model_id = "router/eco" -> Some("eco")
      [] model_id = "router/ghost" -> Some("ghost")
      [] OTHER -> None

default_provider_tiers_for_complexity(c) ==
    CASE c = "Simple" -> <<"Free", "Cheap">>
      [] c = "Medium" -> <<"Cheap", "Free", "PayPerRequest">>
      [] c = "Complex" -> <<"Subscription", "Cheap", "PayPerRequest">>
      [] c = "Reasoning" -> <<"Subscription", "PayPerRequest">>

tier_key(c) ==
    CASE c = "Simple" -> "simple"
      [] c = "Medium" -> "medium"
      [] c = "Complex" -> "complex"
      [] c = "Reasoning" -> "reasoning"

\* config.profiles.iter().find(|p| p.name == profile_name)
FindProfile(config, profile_name) ==
    LET hits == {i \in 1..Len(config.profiles) : config.profiles[i].name = profile_name}
    IN IF hits = {} THEN None
       ELSE Some(config.profiles[CHOOSE i \in hits : \A j \in hits : i <= j])

ProfileName(config, profile_override) ==
    UnwrapOr(profile_override, config.active_profile)

\* config.profiles[0] on an empty list: the index panics
RoutePanics(config, profile_override) ==
    /\ FindProfile(config, ProfileName(config, profile_override)) = None
    /\ config.profiles = <<>>

RouteProfile(config, profile_override) ==
    UnwrapOr(FindProfile(config, ProfileName(config, profile_override)),
             config.profiles[1])

\* mutant: the agentic mapping is read although it is empty
MappingSourceAgenticFirst(profile, use_agentic) ==
    IF use_agentic THEN profile.agentic_model_mapping ELSE profile.model_mapping

MappingSource(profile, use_agentic) ==
    IF use_agentic /\ DOMAIN profile.agentic_model_mapping # {}
    THEN profile.agentic_model_mapping
    ELSE profile.model_mapping

EffectiveModelId(mapping_source, model_id, complexity) ==
    IF IsSome(complexity)
    THEN LET k == tier_key(Unwrap(complexity))
         IN IF k \in DOMAIN mapping_source /\ mapping_source[k].model_id # ""
            THEN mapping_source[k].model_id
            ELSE model_id
    ELSE model_id

\* mutant: the allowed tiers are not narrowed by the complexity
EffectiveTiersUnfiltered(profile, complexity) == profile.allowed_tiers

EffectiveTiers(profile, complexity) ==
    IF IsSome(complexity)
    THEN LET complexity_tiers == default_provider_tiers_for_complexity(Unwrap(complexity))
             intersection ==
                 FilterIdx(profile.allowed_tiers,
                           {i \in 1..Len(profile.allowed_tiers) :
                                Contains(complexity_tiers, profile.allowed_tiers[i])}, 1)
         IN IF intersection = <<>> THEN profile.allowed_tiers ELSE intersection
    ELSE profile.allowed_tiers

MappedProviderId(mapping_source, complexity) ==
    IF IsSome(complexity)
    THEN LET k == tier_key(Unwrap(complexity))
         IN IF k \in DOMAIN mapping_source /\ mapping_source[k].provider_id # ""
            THEN Some(mapping_source[k].provider_id)
            ELSE None
    ELSE None

ServesModel(p, mid) == \E i \in 1..Len(p.models) : p.models[i].id = mid

\* mutant: the enabled filter is dropped
CandidateFilterNoEnabled(p, effective_model_id, mapped_provider_id, effective_tiers) ==
    /\ ServesModel(p, effective_model_id)
    /\ IF IsSome(mapped_provider_id)
       THEN p.id = Unwrap(mapped_provider_id)
       ELSE Contains(effective_tiers, p.tier)

\* mutant: the provider id of the mapping is not looked at
CandidateFilterUnpinned(p, effective_model_id, mapped_provider_id, effective_tiers) ==
    /\ p.enabled
    /\ ServesModel(p, effective_model_id)
    /\ Contains(effective_tiers, p.tier)

\* the three filters of step 4
CandidateFilter(p, effective_model_id, mapped_provider_id, effective_tiers) ==
    /\ p.enabled
    /\ ServesModel(p, effective_model_id)
    /\ IF IsSome(mapped_provider_id)
       THEN p.id = Unwrap(mapped_provider_id)
       ELSE Contains(effective_tiers, p.tier)

\* mutant: the fallback does not look at the models of the provider
FallbackFilterAnyModel(p, model_id, effective_tiers) ==
    /\ p.enabled
    /\ Contains(effective_tiers, p.tier)

\* the three filters of step 5
FallbackFilter(p, model_id, effective_tiers) ==
    /\ p.enabled
    /\ ServesModel(p, model_id)
    /\ Contains(effective_tiers, p.tier)

\* models.iter().find(|m| m.id == mid).map(|m| m.input_cost_per_1m).unwrap_or(f64::MAX)
InputCost(p, mid) ==
    LET hits == {i \in 1..Len(p.models) : p.models[i].id = mid}
    IN IF hits = {} THEN F64Max
       ELSE p.models[CHOOSE i \in hits : \A j \in hits : i <= j].input_cost_per_1m

\* the comparator of sort_by on the tier positions, the costs and the
\* priorities of a and b: TRUE when a orders strictly before b
Before(ta, tb, ca, cb, pa, pb) ==
    \/ ta < tb
    \/ ta = tb /\ ca < cb
    \/ ta = tb /\ ca = cb /\ pb < pa

SortLess(a, b, effective_tiers, effective_model_id) ==
    Before(Position(effective_tiers, a.tier), Position(effective_tiers, b.tier),
           InputCost(a, effective_model_id), InputCost(b, effective_model_id),
           a.priority, b.priority)

\* Vec::sort_by is a stable sort: insertion after the last element not greater
RECURSIVE SortBy(_, _, _)
Insert(sorted, x, effective_tiers, effective_model_id) ==
    LET before == {i \in 1..Len(sorted) :
                     ~SortLess(x, sorted[i], effective_tiers, effective_model_id)}
        \* the comparator is a total preorder, so `before` is a prefix
        n == Cardinality(before)
    IN SubSeq(sorted, 1, n) \o <<x>> \o SubSeq(sorted, n + 1, Len(sorted))
SortBy(s, effective_tiers, effective_model_id) ==
    IF s = <<>> THEN <<>>
    ELSE Insert(SortBy(SubSeq(s, 1, Len(s) - 1), effective_tiers, effective_model_id),
                s[Len(s)], effective_tiers, effective_model_id)

\* mutant: step 5 is left out
RouteCandidatesNoRetry(ps, model_id, effective_model_id, effective_tiers, first) ==
    SortBy(first, effective_tiers, effective_model_id)

\* steps 4 to 6: the filter, the fallback to the requested model, the sort
RouteCandidates(ps, model_id, effective_model_id, effective_tiers, first) ==
    SortBy(IF first = <<>> /\ effective_model_id # model_id
           THEN FilterIdx(ps, {i \in 1..Len(ps) :
                    FallbackFilter(ps[i], model_id, effective_tiers)}, 1)
           ELSE first,
           effective_tiers, effective_model_id)

RouteFiltered(ps, model_id, effective_model_id, effective_tiers, mapped_provider_id) ==
    RouteCandidates(ps, model_id, effective_model_id, effective_tiers,
                    FilterIdx(ps, {i \in 1..Len(ps) :
                        CandidateFilter(ps[i], effective_model_id, mapped_provider_id,
                                        effective_tiers)}, 1))

\* steps 2 and 3: the mapped model, the tiers, the mapped provider
RouteMapped(ps, model_id, complexity, profile, mapping_source) ==
    RouteFiltered(ps, model_id,
                  EffectiveModelId(mapping_source, model_id, complexity),
                  EffectiveTiers(profile, complexity),
                  MappedProviderId(mapping_source, complexity))

RouteInProfile(ps, model_id, complexity, profile, use_agentic) ==
    RouteMapped(ps, model_id, complexity, profile, MappingSource(profile, use_agentic))

\* Router::route_request_with_profile, for a config on which it does not panic
route_request_with_profile(config, model_id, complexity, profile_override, use_agentic) ==
    RouteInProfile(config.providers, model_id, complexity,
                   RouteProfile(config, profile_override), use_agentic)

ResolveInProfile(profile, model_id, complexity, use_agentic) ==
    IF IsSome(profile) /\ IsSome(complexity)
    THEN EffectiveModelId(MappingSource(Unwrap(profile), use_agentic), model_id, complexity)
    ELSE model_id

\* Router::resolve_model_id_with_profile
resolve_model_id_with_profile(config, model_id, complexity, profile_override, use_agentic) ==
    ResolveInProfile(FindProfile(config, ProfileName(config, profile_override)),
                     model_id, complexity, use_agentic)

(***************************************************************************)
(* scorer.rs: the part of the scorer the orchestrator reads. A message     *)
(* text is known by its length and by the number of keywords of each list  *)
(* it contains.                                                            *)
(***************************************************************************)
Dimensions ==
    {"code", "reasoning", "technical", "creative", "simple", "imperative",
     "constraint", "output_format", "reference", "negation", "domain"}

NoKeywords == [d \in Dimensions |-> 0]

\* what Scorer::score reads of a text: its byte length, the keyword counts,
\* the agentic keyword count, the multi-step regex match, the number of '?'
TextFeatures(text) ==
    CASE text = "hello" ->
           [len |-> 5, kw |-> [NoKeywords EXCEPT !["simple"] = 1],
            agentic |-> 0, multi_step |-> FALSE, questions |-> 0]
      [] text = "what is json?" ->
           [len |-> 13, kw |-> [NoKeywords EXCEPT !["simple"] = 1, !["output_format"] = 1],
            agentic |-> 0, multi_step |-> FALSE, questions |-> 1]
      [] text = "prove the theorem by induction, then fix and debug the code" ->
           [len |-> 59, kw |-> [NoKeywords EXCEPT !["reasoning"] = 3, !["reference"] = 1],
            agentic |-> 2, multi_step |-> FALSE, questions |-> 0]
      [] text = "hello, fix it" ->
           [len |-> 13, kw |-> [NoKeywords EXCEPT !["simple"] = 1],
            agentic |-> 1, multi_step |-> FALSE, questions |-> 0]
      [] OTHER ->
           [len |-> 0, kw |-> NoKeywords, agentic |-> 0, multi_step |-> FALSE,
            questions |-> 0]

\* ScorerConfig::default(): weights and boundaries in thousandths
ScorerWeightsDefault ==
    [token_count |-> 80, code |-> 150, reasoning |-> 180, technical |-> 100,
     creative |-> 50, simple |-> 20, multi_step |-> 120, questions |-> 50,
     imperative |-> 30, constraint |-> 40, output_format |-> 30, reference |-> 20,
     negation |-> 10, domain |-> 20, agentic |-> 40]
ScorerConfigDefault ==
    [enabled |-> TRUE, weights |-> ScorerWeightsDefault,
     tier_boundaries |-> [simple_upper |-> 0, medium_upper |-> 300, complex_upper |-> 500],
     token_thresholds |-> [short_upper |-> 500, long_lower |-> 3000],
     max_tokens_force_complex |-> 100000]

\* estimate_token_count
estimate_token_count(len) == len \div 4

\* score_token_count, in tenths
score_token_count(len, thresholds) ==
    IF estimate_token_count(len) < thresholds.short_upper THEN -10
    ELSE IF estimate_token_count(len) > thresholds.long_lower THEN 10
    ELSE 0

\* score_keyword_match: 0 -> 0.0, 1 -> 0.3, 2 -> 0.6, 3+ -> 1.0, in tenths
score_keyword_match(count) ==
    CASE count = 0 -> 0 [] count = 1 -> 3 [] count = 2 -> 6 [] OTHER -> 10

\* score_agentic_task: 0 -> 0.0, 1..2 -> 0.2, 3 -> 0.6, 4+ -> 1.0, in tenths
score_agentic_task(count) ==
    CASE count = 0 -> 0 [] count \in 1..2 -> 2 [] count = 3 -> 6 [] OTHER -> 10

\* compute_weighted_score: tenths times thousandths, in ten-thousandths
compute_weighted_score(f, cfg) ==
    LET w == cfg.weights
        k(d) == score_keyword_match(f.kw[d])
    IN score_token_count(f.len, cfg.token_thresholds) * w.token_count
       + k("code") * w.code + k("reasoning") * w.reasoning
       + k("technical") * w.technical + k("creative") * w.creative
       - k("simple") * w.simple
       + (IF f.multi_step THEN 5 ELSE 0) * w.multi_step
       + (IF f.questions > 3 THEN 5 ELSE 0) * w.questions
       + k("imperative") * w.imperative + k("constraint") * w.constraint
       + k("output_format") * w.output_format + k("reference") * w.reference
       + k("negation") * w.negation + k("domain") * w.domain
       + score_agentic_task(f.agentic) * w.agentic

\* classify_tier: raw in ten-thousandths, boundaries in thousandths
classify_tier(raw, b) ==
    IF raw < b.simple_upper * 10 THEN "Simple"
    ELSE IF raw < b.medium_upper * 10 THEN "Medium"
    ELSE IF raw < b.complex_upper * 10 THEN "Complex"
    ELSE "Reasoning"

TierRank(t) ==
    CASE t = "Simple" -> 0 [] t = "Medium" -> 1 [] t = "Complex" -> 2 [] t = "Reasoning" -> 3

\* extract_text: the user messages' string contents; the model's requests
\* carry at most one user message
extract_text(messages) ==
    LET users == {i \in 1..Len(messages) : messages[i].role = "user"}
    IN IF users = {} THEN ""
       ELSE messages[CHOOSE i \in users : \A j \in users : i <= j].content

\* Scorer::score, lines 339-368: the three overrides in turn, then the result
ScoreResult(f, raw_score, t0, o1, o2, o3) ==
    [tier |-> IF o3 THEN "Reasoning"
              ELSE IF o2 THEN "Medium" ELSE IF o1 THEN "Complex" ELSE t0,
     raw_score |-> raw_score,
     override_applied |->
         IF o3 THEN Some("reasoning_markers_force")
         ELSE IF o2 THEN Some("structured_output_min_medium")
         ELSE IF o1 THEN Some("token_count_force_complex")
         ELSE None,
     agentic_keyword_count |-> f.agentic]

\* mutant: the second override looks at the classified tier, not at the
\* tier the first override has left
ScoreOverridesOnClassified(f, cfg, raw_score, t0, o1) ==
    ScoreResult(f, raw_score, t0, o1,
                score_keyword_match(f.kw["output_format"]) > 0 /\ t0 = "Simple",
                score_keyword_match(f.kw["reasoning"]) >= 6)

\* the three overrides of a text classified t0: the token count forces at
\* least Complex, an output format keyword lifts Simple to Medium, two
\* reasoning keywords force Reasoning
ScoreOverrides(f, cfg, raw_score, t0, o1) ==
    ScoreResult(f, raw_score, t0, o1,
                score_keyword_match(f.kw["output_format"]) > 0
                    /\ (IF o1 THEN "Complex" ELSE t0) = "Simple",
                score_keyword_match(f.kw["reasoning"]) >= 6)

ScoreClassified(f, cfg, raw_score, t0) ==
    ScoreOverrides(f, cfg, raw_score, t0,
                   estimate_token_count(f.len) > cfg.max_tokens_force_complex
                       /\ TierRank(t0) < TierRank("Complex"))

ScoreWeighted(f, cfg, raw_score) ==
    ScoreClassified(f, cfg, raw_score, classify_tier(raw_score, cfg.tier_boundaries))

ScoreFeatures(f, cfg) == ScoreWeighted(f, cfg, compute_weighted_score(f, cfg))

\* Scorer::score
Scorer_score(messages, cfg) == ScoreFeatures(TextFeatures(extract_text(messages)), cfg)

(***************************************************************************)
(* The configurations and the requests of the model.                       *)
(***************************************************************************)
AllTiers == <<"Subscription", "Cheap", "Free", "PayPerRequest">>

\* HeaderValue::from_str fails on a key that holds a control byte
ValidHeaderValue(key) == key # "sk-bad-newline"

PFailing == Provider("p1", "Failing", "OpenAI", Some("sk-ok"), "Cheap", TRUE, 2,
                     <<Model("m1", 1, 2)>>)
PGood == Provider("p2", "Good", "OpenAI", None, "Cheap", TRUE, 1,
                  <<Model("m1", 1, 2), Model("m2", 3, 4)>>)
PBadKey == Provider("p3", "BadKey", "OpenAI", Some("sk-bad-newline"), "Cheap", TRUE, 0,
                    <<Model("m1", 1, 2)>>)

ProfileAuto == RoutingProfile("auto", AllTiers, EmptyMap, EmptyMap)
ProfileFree == RoutingProfile("auto", <<"Free">>, EmptyMap, EmptyMap)
\* a profile whose mapping sends simple requests to m2
ProfileMapped ==
    RoutingProfile("auto", AllTiers,
                   [k \in {"simple"} |-> ModelMapping("m2", "")], EmptyMap)
\* a profile whose mapping sends simple requests to m3, which no provider
\* serves
ProfileUnserved ==
    RoutingProfile("auto", AllTiers,
                   [k \in {"simple"} |-> ModelMapping("m3", "")], EmptyMap)

Config(providers, profiles, scorer, cache, session) ==
    [providers |-> providers, profiles |-> profiles, active_profile |-> "auto",
     scorer |-> scorer, cache |-> cache, agentic_mode |-> FALSE, session |-> session]

\* the session and cache settings of the model's configurations: absent
\* (the default: disabled), or enabled with the shortest time to live, under
\* which an entry is live until the whole seconds of its age exceed zero
SessionChoices == {None, Some(SessionConfig(TRUE, 0))}
CacheChoices == {None, Some(CacheConfig(TRUE, 0))}

Configs ==
    { Config(<<PFailing, PGood>>, <<ProfileAuto>>, None, c, s) :
        c \in CacheChoices, s \in SessionChoices }
    \cup { Config(<<PBadKey, PGood>>, <<ProfileAuto>>, None, None,
                  Some(SessionConfig(TRUE, 0))),
           Config(<<PFailing, PGood>>, <<ProfileFree>>, None, None, None),
           Config(<<PFailing, PGood>>, <<>>, None, None, None),
           Config(<<PFailing, PGood>>, <<ProfileMapped>>, Some(ScorerConfigDefault),
                  None, Some(SessionConfig(TRUE, 0))),
           Config(<<PFailing, PGood>>, <<ProfileUnserved>>, Some(ScorerConfigDefault),
                  None, Some(SessionConfig(TRUE, 0))) }

\* ChatCompletionRequest and the headers the handler reads
Request(model, header, messages, extra) ==
    [model |-> model, x_session_id |-> header, messages |-> messages, extra |-> extra]

\* a JSON value of the extras: its type and its content
JString(v) == [t |-> "string", v |-> v]
JNumber(v) == [t |-> "number", v |-> v]
NoExtra == [k \in {} |-> JString("")]
UserHello == <<[role |-> "user", content |-> "hello"]>>

Requests ==
    { Request(m, Some("s1"), UserHello, NoExtra) : m \in {"m1", "nonexistent"} }

(***************************************************************************)
(* State.                                                                  *)
(***************************************************************************)
VARIABLES
    config,     \* AppState.config: the live Config
    now,        \* the clock, in ticks
    logs,       \* AppState.logs: the entries the requests of the model appended
    older,      \* the number of entries in the ring below them, appended earlier
    oldest,     \* the entries at the old end of the ring, below those
    appended,   \* the number of add_log calls so far, the earlier ones included
    sessions,   \* AppState.sessions: session id -> SessionEntry
    cache,      \* the cache directory: key -> CacheEntry
    rq,         \* per request: the handler's position and locals
    uuids,      \* the number of log ids drawn so far
    rt          \* the router call under check: its input and its result

vars == <<config, now, logs, older, oldest, appended, sessions, cache, rq, uuids, rt>>

Reqs == 1..MaxReqs

(***************************************************************************)
(* state.rs                                                                *)
(***************************************************************************)
\* RequestLog::new; Uuid::new_v4() is a fresh id
RequestLog_new(id, timestamp, model) ==
    [id |-> id, timestamp |-> timestamp, model |-> model, effective_model |-> None,
     provider |-> None, status |-> "pending", status_code |-> None, duration_ms |-> 0,
     input_tokens |-> None, output_tokens |-> None, estimated_cost |-> None,
     complexity_tier |-> None, complexity_score |-> None, error_message |-> None,
     providers_tried |-> <<>>, cache_status |-> None, agentic_mode |-> None,
     session_id |-> None, session_pinned |-> None]

SessionEntry(provider_id, model_id, last_active) ==
    [provider_id |-> provider_id, model_id |-> model_id, last_active |-> last_active]

\* Duration::num_seconds: whole seconds, the fraction dropped
num_seconds(ticks) == ticks \div TicksPerSec

\* mutant: the time to live is not checked
get_session_no_ttl(table, session_id, ttl_seconds, t) ==
    IF session_id \in DOMAIN table THEN Some(table[session_id]) ELSE None

\* AppState::get_session
get_session(table, session_id, ttl_seconds, t) ==
    IF session_id \in DOMAIN table
         /\ num_seconds(t - table[session_id].last_active) <= ttl_seconds
    THEN Some(table[session_id])
    ELSE None

\* mutant: the model of an entry that exists is kept
set_session_keep_model(table, session_id, provider_id, model_id, t) ==
    [k \in DOMAIN table \cup {session_id} |->
        IF k = session_id
        THEN SessionEntry(provider_id,
                          IF k \in DOMAIN table THEN table[k].model_id ELSE model_id, t)
        ELSE table[k]]

\* mutant: the provider of an entry that exists is kept
set_session_keep_provider(table, session_id, provider_id, model_id, t) ==
    [k \in DOMAIN table \cup {session_id} |->
        IF k = session_id
        THEN SessionEntry(IF k \in DOMAIN table THEN table[k].provider_id ELSE provider_id,
                          model_id, t)
        ELSE table[k]]

\* AppState::set_session
set_session(table, session_id, provider_id, model_id, t) ==
    [k \in DOMAIN table \cup {session_id} |->
        IF k = session_id THEN SessionEntry(provider_id, model_id, t) ELSE table[k]]

\* mutant: last_active is left as it was
touch_session_noop(table, session_id, t) == table

\* mutant: the touch also forgets the model of the entry
touch_session_unpin(table, session_id, t) ==
    IF session_id \in DOMAIN table
    THEN [table EXCEPT ![session_id].last_active = t, ![session_id].model_id = ""]
    ELSE table

\* AppState::touch_session
touch_session(table, session_id, t) ==
    IF session_id \in DOMAIN table
    THEN [table EXCEPT ![session_id].last_active = t]
    ELSE table

\* mutant: the ring is never drained
add_log_unbounded(head, below, ring, log) ==
    [oldest |-> head, older |-> below, logs |-> Append(ring, log)]

\* logs.drain(0..drain_count) on a ring made of the entries head, then
\* `below` further entries, then the entries ring: the oldest end goes first
drain(head, below, ring, drain_count) ==
    LET from_head == IF drain_count < Len(head) THEN drain_count ELSE Len(head)
        from_below == IF drain_count - from_head < below
                      THEN drain_count - from_head ELSE below
    IN [oldest |-> SubSeq(head, 1 + from_head, Len(head)),
        older |-> below - from_below,
        logs |-> SubSeq(ring, 1 + (drain_count - from_head - from_below), Len(ring))]

\* mutant: the entry is inserted at the place of its id, the order in which
\* the requests arrived
add_log_by_id(head, below, ring, log) ==
    drain(head, below,
          SubSeq(ring, 1, Cardinality({i \in 1..Len(ring) : ring[i].id < log.id}))
            \o <<log>>
            \o SubSeq(ring, 1 + Cardinality({i \in 1..Len(ring) : ring[i].id < log.id}),
                      Len(ring)),
          IF Len(head) + below + Len(ring) + 1 > MAX_LOGS
          THEN Len(head) + below + Len(ring) + 1 - MAX_LOGS ELSE 0)

\* AppState::add_log: push, then drain from the oldest end down to MAX_LOGS
add_log(head, below, ring, log) ==
    drain(head, below, Append(ring, log),
          IF Len(head) + below + Len(ring) + 1 > MAX_LOGS
          THEN Len(head) + below + Len(ring) + 1 - MAX_LOGS ELSE 0)

(***************************************************************************)
(* cache.rs                                                                *)
(***************************************************************************)
RecognizedExtras ==
    {"temperature", "top_p", "max_tokens", "max_completion_tokens", "tools",
     "tool_choice", "stop", "response_format", "seed"}

\* cache_key: the SHA-256 of its input, known by that input: the model, the
\* messages and the recognized extras by key
cache_key(model, messages, extra) ==
    <<model, messages, [k \in (DOMAIN extra) \cap RecognizedExtras |-> extra[k]]>>

\* the place of a recognized key in the byte order of its name: keys.sort()
KeyRank(k) ==
    CASE k = "max_completion_tokens" -> 1
      [] k = "max_tokens" -> 2
      [] k = "response_format" -> 3
      [] k = "seed" -> 4
      [] k = "stop" -> 5
      [] k = "temperature" -> 6
      [] k = "tool_choice" -> 7
      [] k = "tools" -> 8
      [] k = "top_p" -> 9

\* keys.sort() on the recognized keys
RECURSIVE SortKeys(_)
SortKeys(keys) ==
    IF keys = <<>> THEN <<>>
    ELSE LET rest == SortKeys(Tail(keys))
             n == Cardinality({i \in 1..Len(rest) : KeyRank(rest[i]) < KeyRank(Head(keys))})
         IN SubSeq(rest, 1, n) \o <<Head(keys)>> \o SubSeq(rest, n + 1, Len(rest))

\* serde_json::to_string of a scalar value: a string in quotes, a number bare
to_string(v) == IF v.t = "string" THEN "\"" \o v.v \o "\"" ELSE v.v

\* serde_json::to_string of the messages: an array of objects, the fields of
\* an object in the order of their names
RECURSIVE MessagesItems(_, _)
MessagesItems(messages, i) ==
    IF i > Len(messages) THEN ""
    ELSE (IF i > 1 THEN "," ELSE "")
         \o "{\"content\":\"" \o messages[i].content
         \o "\",\"role\":\"" \o messages[i].role \o "\"}"
         \o MessagesItems(messages, i + 1)
messages_str(messages) == "[" \o MessagesItems(messages, 1) \o "]"

\* hasher.update(k); hasher.update(to_string(extra[k])) for k in keys
RECURSIVE HashExtras(_, _)
HashExtras(extra, keys) ==
    IF keys = <<>> THEN ""
    ELSE Head(keys) \o to_string(extra[Head(keys)]) \o HashExtras(extra, Tail(keys))

\* mutant: the recognized keys are hashed in the order of the iteration
cache_key_input_unsorted(model, messages, extra, iter) ==
    model \o messages_str(messages)
          \o HashExtras(extra, FilterIdx(iter, {i \in 1..Len(iter) :
                                                  iter[i] \in RecognizedExtras}, 1))

\* the bytes cache_key feeds to the hasher when extra.keys() yields the keys
\* in the order iter; the key is the SHA-256 of these bytes
cache_key_input(model, messages, extra, iter) ==
    model \o messages_str(messages)
          \o HashExtras(extra, SortKeys(FilterIdx(iter, {i \in 1..Len(iter) :
                                                  iter[i] \in RecognizedExtras}, 1)))

\* now_unix: whole seconds
now_unix(t) == t \div TicksPerSec

CacheEntry(cached_at, model, body) ==
    [cached_at |-> cached_at, model |-> model, response_body |-> body]

\* mutant: an entry expires when its age reaches the time to live
cache_get_strict(cfg, key, dir, t, readable, removable) ==
    IF ~cfg.enabled \/ key \notin DOMAIN dir \/ ~readable THEN [body |-> None, dir |-> dir]
    ELSE IF now_unix(t) >= dir[key].cached_at
            /\ now_unix(t) - dir[key].cached_at >= cfg.ttl_seconds
         THEN [body |-> None,
               dir |-> IF removable THEN [k \in (DOMAIN dir) \ {key} |-> dir[k]] ELSE dir]
         ELSE [body |-> Some(dir[key].response_body), dir |-> dir]

\* mutant: a get that finds its entry expired removes every expired entry
cache_get_sweep(cfg, key, dir, t, readable, removable) ==
    IF ~cfg.enabled \/ key \notin DOMAIN dir \/ ~readable THEN [body |-> None, dir |-> dir]
    ELSE IF now_unix(t) > dir[key].cached_at + cfg.ttl_seconds
         THEN [body |-> None,
               dir |-> [k \in {j \in DOMAIN dir :
                                 now_unix(t) <= dir[j].cached_at + cfg.ttl_seconds} |-> dir[k]]]
         ELSE [body |-> Some(dir[key].response_body), dir |-> dir]

\* cache::get: the body returned, and the directory afterwards; readable is
\* whether fs::read and the parse succeed, removable whether fs::remove_file
\* succeeds (its error is dropped)
cache_get(cfg, key, dir, t, readable, removable) ==
    IF ~cfg.enabled THEN [body |-> None, dir |-> dir]
    ELSE IF key \notin DOMAIN dir \/ ~readable THEN [body |-> None, dir |-> dir]
    ELSE LET age == IF now_unix(t) >= dir[key].cached_at
                    THEN now_unix(t) - dir[key].cached_at ELSE 0
         IN IF age > cfg.ttl_seconds
            THEN [body |-> None,
                  dir |-> IF removable
                          THEN [k \in (DOMAIN dir) \ {key} |-> dir[k]] ELSE dir]
            ELSE [body |-> Some(dir[key].response_body), dir |-> dir]

\* mutant: the entry is never written
cache_put_noop(cfg, key, model, body, dir, t, writable) == dir

\* cache::put: the directory afterwards; writable is whether fs::write succeeds
cache_put(cfg, key, model, body, dir, t, writable) ==
    IF ~cfg.enabled \/ ~writable THEN dir
    ELSE [k \in DOMAIN dir \cup {key} |->
            IF k = key THEN CacheEntry(now_unix(t), model, body) ELSE dir[k]]

(***************************************************************************)
(* handlers.rs: chat_completions                                           *)
(***************************************************************************)
\* the fingerprint text: the contents of the system messages and of the
\* first user message
RECURSIVE FingerprintParts(_, _)
FingerprintParts(messages, i) ==
    IF i > Len(messages) THEN ""
    ELSE IF messages[i].role = "user" THEN messages[i].content
    ELSE IF messages[i].role = "system"
         THEN messages[i].content \o FingerprintParts(messages, i + 1)
    ELSE FingerprintParts(messages, i + 1)

\* extract_session_id; the digest of the fingerprint is known by its input
extract_session_id(request) ==
    IF IsSome(request.x_session_id) /\ Unwrap(request.x_session_id) # ""
    THEN request.x_session_id
    ELSE IF "conversation_id" \in DOMAIN request.extra
              /\ request.extra["conversation_id"].t = "string"
              /\ request.extra["conversation_id"].v # ""
    THEN Some(request.extra["conversation_id"].v)
    ELSE IF FingerprintParts(request.messages, 1) # ""
    THEN Some("fp:" \o FingerprintParts(request.messages, 1))
    ELSE None

\* has_tools
has_tools(request) ==
    /\ "tools" \in DOMAIN request.extra
    /\ request.extra["tools"].t = "array"
    /\ request.extra["tools"].v # <<>>

\* mutant: the pinned provider is searched in the live config
FindPinnedProviderLive(cfg, provider_id) ==
    LET hits == {i \in 1..Len(config.providers) :
                    config.providers[i].id = provider_id /\ config.providers[i].enabled}
    IN IF hits = {} THEN None
       ELSE Some(config.providers[CHOOSE i \in hits : \A j \in hits : i <= j])

\* config.providers.iter().find(|p| p.id == pinned.provider_id && p.enabled)
FindPinnedProvider(cfg, provider_id) ==
    LET hits == {i \in 1..Len(cfg.providers) :
                    cfg.providers[i].id = provider_id /\ cfg.providers[i].enabled}
    IN IF hits = {} THEN None
       ELSE Some(cfg.providers[CHOOSE i \in hits : \A j \in hits : i <= j])

\* start.elapsed().as_millis()
elapsed_ms(start, t) == ((t - start) * 1000) \div TicksPerSec

\* forward_to_provider up to the send: the header values are parsed with
\* unwrap(), which panics on a key that is no header value
ForwardPanics(provider) == ~ValidHeaderValue(UnwrapOr(provider.api_key, ""))

\* the header map of the client's request: lower-case name -> value
Headers(authorization) ==
    [k \in {"host", "content-length", "x-session-id"} \cup
            (IF IsSome(authorization) THEN {"authorization"} ELSE {}) |->
        IF k = "authorization" THEN Unwrap(authorization) ELSE k]

\* HeaderMap::remove and HeaderMap::insert (insert replaces the value)
HeaderRemove(h, name) == [k \in (DOMAIN h) \ {name} |-> h[k]]
HeaderInsert(h, name, value) ==
    [k \in (DOMAIN h) \cup {name} |-> IF k = name THEN value ELSE h[k]]

\* forward_to_provider, lines 315-331: the headers of the upstream request,
\* when no header value fails to parse
forward_headers(headers, provider) ==
    IF provider.provider_type = "Anthropic"
    THEN HeaderInsert(HeaderInsert(HeaderInsert(
             HeaderRemove(HeaderRemove(HeaderRemove(headers, "host"), "content-length"),
                          "authorization"),
             "x-api-key", UnwrapOr(provider.api_key, "")),
             "anthropic-version", "2023-06-01"),
             "content-type", "application/json")
    ELSE HeaderInsert(HeaderRemove(HeaderRemove(headers, "host"), "content-length"),
                      "authorization", "Bearer " \o UnwrapOr(provider.api_key, ""))

\* what the upstream may answer to one forward: a 2xx with or without usage
\* counts, a non-2xx, or a transport error; a count of the usage object may
\* be absent or no unsigned integer
Usage(prompt_tokens, completion_tokens) ==
    [prompt_tokens |-> prompt_tokens, completion_tokens |-> completion_tokens]
Outcomes ==
    {[kind |-> "ok", usage |-> u] : u \in {None, Some(Usage(Some(10), Some(5)))}}
    \cup {[kind |-> k, usage |-> None] : k \in {"non2xx", "transport"}}

\* the bytes of the upstream answer to request n: no two answers are alike
Body(provider, model, n) == [from |-> provider.id, model |-> model, n |-> n, text |-> ""]
\* the text/plain body of an error answer of the gateway
TextBody(text) == [from |-> "", model |-> "", n |-> 0, text |-> text]

\* mutant: the cost is computed from the first model of the provider
ForwardSuccessLogFirstModel(log, provider, effective_model, outcome) ==
    LET l1 == IF IsSome(outcome.usage)
              THEN [log EXCEPT !.input_tokens = Unwrap(outcome.usage).prompt_tokens,
                               !.output_tokens = Unwrap(outcome.usage).completion_tokens]
              ELSE log
    IN IF IsSome(l1.input_tokens) /\ IsSome(l1.output_tokens) /\ provider.models # <<>>
       THEN [l1 EXCEPT !.estimated_cost =
                  Some(Unwrap(l1.input_tokens) * provider.models[1].input_cost_per_1m
                       + Unwrap(l1.output_tokens) * provider.models[1].output_cost_per_1m)]
       ELSE l1

\* forward_to_provider on a 2xx answer: the usage counts and the estimated
\* cost (in millionths) written to the log entry
ForwardSuccessLog(log, provider, effective_model, outcome) ==
    LET l1 == IF IsSome(outcome.usage)
              THEN [log EXCEPT !.input_tokens = Unwrap(outcome.usage).prompt_tokens,
                               !.output_tokens = Unwrap(outcome.usage).completion_tokens]
              ELSE log
        hits == {i \in 1..Len(provider.models) : provider.models[i].id = effective_model}
    IN IF IsSome(l1.input_tokens) /\ IsSome(l1.output_tokens) /\ hits # {}
       THEN LET m == provider.models[CHOOSE i \in hits : \A j \in hits : i <= j]
            IN [l1 EXCEPT !.estimated_cost =
                    Some(Unwrap(l1.input_tokens) * m.input_cost_per_1m
                         + Unwrap(l1.output_tokens) * m.output_cost_per_1m)]
       ELSE l1

NoProvider == Provider("", "", "OpenAI", None, "Cheap", FALSE, 0, <<>>)
NoConfig == Config(<<>>, <<>>, None, None, None)
NoRequest == Request("", None, <<>>, NoExtra)
NoPin == SessionEntry("", "", 0)

\* a request that has not arrived
IdleReq ==
    [pc |-> "idle", request |-> NoRequest, config |-> NoConfig, start |-> 0,
     log_entry |-> RequestLog_new(0, 0, ""), session_id |-> None, pinned |-> NoPin,
     provider |-> NoProvider, candidates |-> <<>>, idx |-> 0, effective_model |-> "",
     reply |-> None, response |-> None,
     \* history, read by the properties only:
     after |-> {},            \* the requests that had ended when this one arrived
     contacted |-> <<>>,      \* the providers a request was sent to, in order
     answered |-> <<>>,       \* what each answered: "ok" or "failed"
     pin_age |-> None,        \* the ticks since last_active of the pin get_session returned
     pin_sent |-> FALSE,      \* the first of them was the session-pinned provider
     pin_failed |-> FALSE,    \* and it failed
     touched_at |-> None,     \* when touch_session ran
     cache_looked |-> FALSE,  \* cache::get ran
     read_failed |-> FALSE,   \* and could not read an entry that was there
     cache_wrote |-> FALSE,   \* cache::put ran and its write succeeded
     put_at |-> None,         \* when cache::put ran
     scored |-> FALSE,        \* Scorer::score ran
     routed |-> FALSE,        \* the router returned
     logged |-> 0,            \* the number of add_log calls
     completed |-> 0,         \* the place of its add_log among all add_log calls
     model_writes |-> 0,      \* the assignments to log_entry.effective_model
     set_seq |-> 0,           \* the place of its set_session among all set_session calls
     held |-> {}]             \* the locks of AppState whose guard it holds

Reply(status, body) == [status |-> status, body |-> body]
Contact(provider) == [id |-> provider.id, name |-> provider.name]
Answer(outcome) == IF outcome.kind = "ok" THEN "ok" ELSE "failed"

\* mutant: the name is not pushed to providers_tried
TrySendUnrecorded(q, i) ==
    LET provider == q.candidates[i]
        q1 == [q EXCEPT !.idx = i, !.provider = provider]
    IN IF ForwardPanics(provider)
       THEN [q1 EXCEPT !.pc = "panicked"]
       ELSE [q1 EXCEPT !.pc = "fanout_forward",
                       !.contacted = Append(@, Contact(provider))]

\* mutant: the handler keeps the read guard of the config while it forwards
TrySendHoldingConfig(q, i) ==
    LET provider == q.candidates[i]
        q1 == [q EXCEPT !.idx = i, !.provider = provider,
                        !.log_entry.providers_tried = Append(@, provider.name)]
    IN IF ForwardPanics(provider)
       THEN [q1 EXCEPT !.pc = "panicked"]
       ELSE [q1 EXCEPT !.pc = "fanout_forward", !.held = {"config"},
                       !.contacted = Append(@, Contact(provider))]

\* the fan-out loop at candidate i, up to the send: the name is pushed to
\* providers_tried, the headers are built, the request is sent; the config
\* it reads is the clone get_config returned, whose guard is gone
TrySend(q, i) ==
    LET provider == q.candidates[i]
        q1 == [q EXCEPT !.idx = i, !.provider = provider,
                        !.log_entry.providers_tried = Append(@, provider.name)]
    IN IF ForwardPanics(provider)
       THEN [q1 EXCEPT !.pc = "panicked"]
       ELSE [q1 EXCEPT !.pc = "fanout_forward",
                       !.contacted = Append(@, Contact(provider))]

\* mutant: the exhausted list is logged without its message
AllFailedEndSilent(q, t) ==
    [q EXCEPT !.pc = "add_log",
              !.log_entry.status = "error",
              !.log_entry.duration_ms = elapsed_ms(q.start, t),
              !.reply = Some(Reply(503, TextBody("All providers failed")))]

\* lines 251-256: the 503 after the last candidate
AllFailedEnd(q, t) ==
    [q EXCEPT !.pc = "add_log",
              !.log_entry.status = "error",
              !.log_entry.error_message = Some("All providers failed"),
              !.log_entry.duration_ms = elapsed_ms(q.start, t),
              !.reply = Some(Reply(503, TextBody("All providers failed")))]

\* mutant: the loop skips a candidate
NextCandidateSkip(q, t) ==
    IF q.idx + 1 < Len(q.candidates)
    THEN TrySend(q, q.idx + 2)
    ELSE AllFailedEnd(q, t)

\* the fan-out loop after candidate q.idx failed: the next candidate, or
\* the 503 after the last
NextCandidate(q, t) ==
    IF q.idx < Len(q.candidates)
    THEN TrySend(q, q.idx + 1)
    ELSE AllFailedEnd(q, t)

\* mutant: an empty candidate list is answered like an exhausted one
NoProviderEndAs503(q, t) == AllFailedEnd(q, t)

\* lines 209-215: the 400 of an empty candidate list
NoProviderEnd(q, t) ==
    [q EXCEPT !.pc = "add_log",
              !.log_entry.status = "no_provider",
              !.log_entry.error_message = Some("No provider found for model"),
              !.log_entry.duration_ms = elapsed_ms(q.start, t),
              !.reply = Some(Reply(400, TextBody("No provider found for model")))]

\* lines 143-152: the answer from the cache
CacheHitEnd(q, body, t) ==
    [q EXCEPT !.pc = "add_log",
              !.log_entry.provider = Some("cache"),
              !.log_entry.status = "success",
              !.log_entry.status_code = Some(200),
              !.log_entry.duration_ms = elapsed_ms(q.start, t),
              !.log_entry.cache_status = Some("hit"),
              !.reply = Some(Reply(200, body))]

\* lines 196-224: the router's list and the resolved model id are known; an
\* empty list ends the request, else the first candidate is tried
AfterRouting(q, candidates, effective_model, t) ==
    LET q2 == [q EXCEPT
                 !.routed = TRUE,
                 !.candidates = candidates,
                 !.effective_model = effective_model,
                 !.log_entry.effective_model =
                     IF effective_model # q.request.model THEN Some(effective_model) ELSE @,
                 !.model_writes =
                     IF effective_model # q.request.model THEN @ + 1 ELSE @]
    IN IF candidates = <<>> THEN NoProviderEnd(q2, t) ELSE TrySend(q2, 1)

\* lines 179-197: the agentic flag, then the two calls of the router; the
\* first panics on a config without profiles
AfterAgentic(q, complexity, profile_override, is_agentic, t) ==
    IF RoutePanics(q.config, profile_override)
    THEN [q EXCEPT !.log_entry.agentic_mode = Some(is_agentic), !.pc = "panicked"]
    ELSE AfterRouting([q EXCEPT !.log_entry.agentic_mode = Some(is_agentic)],
                      route_request_with_profile(q.config, q.request.model, complexity,
                                                 profile_override, is_agentic),
                      resolve_model_id_with_profile(q.config, q.request.model, complexity,
                                                    profile_override, is_agentic),
                      t)

\* lines 164-184: the complexity and the agentic keyword count of the
\* scoring result
AfterScoring(q, scoring_result, t) ==
    AfterAgentic([q EXCEPT
                    !.scored = IsSome(scoring_result),
                    !.log_entry.complexity_tier =
                        IF IsSome(scoring_result)
                        THEN Some(Unwrap(scoring_result).tier) ELSE None,
                    !.log_entry.complexity_score =
                        IF IsSome(scoring_result)
                        THEN Some(Unwrap(scoring_result).raw_score) ELSE None],
                 IF IsSome(scoring_result) THEN Some(Unwrap(scoring_result).tier) ELSE None,
                 parse_router_model(q.request.model),
                 \/ has_tools(q.request)
                 \/ q.config.agentic_mode
                 \/ (IF IsSome(scoring_result)
                     THEN Unwrap(scoring_result).agentic_keyword_count ELSE 0) >= 2,
                 t)

\* lines 143-163: a cached body ends the request; else the request is scored
AfterCacheLookup(q, got, scorer_config, t) ==
    [q |-> IF IsSome(got.body)
           THEN CacheHitEnd(q, Unwrap(got.body), t)
           ELSE AfterScoring(q,
                             IF scorer_config.enabled
                             THEN Some(Scorer_score(q.request.messages, scorer_config))
                             ELSE None,
                             t),
     dir |-> got.dir]

\* lines 139-224: from the cache lookup to the first await after it (the
\* add_log of a hit or of a 400, or the send to the first candidate).
\* Returns the request afterwards and the cache directory afterwards.
Pipeline(q, dir, t, readable, removable) ==
    LET cache_config == UnwrapOr(q.config.cache, CacheConfigDefault)
        key == cache_key(q.request.model, q.request.messages, q.request.extra)
    IN AfterCacheLookup([q EXCEPT !.cache_looked = TRUE,
                                  !.read_failed = cache_config.enabled
                                                    /\ key \in DOMAIN dir /\ ~readable],
                        cache_get(cache_config, key, dir, t, readable, removable),
                        UnwrapOr(q.config.scorer, ScorerConfigDefault), t)

\* lines 125-131: the pinned provider answered 2xx
PinnedSuccess(q, outcome, body, t) ==
    [q EXCEPT !.pc = "add_log",
              !.log_entry =
                  [ForwardSuccessLog(q.log_entry, q.provider, q.pinned.model_id, outcome)
                     EXCEPT !.provider = Some(q.provider.name),
                            !.status = "success",
                            !.status_code = Some(200),
                            !.duration_ms = elapsed_ms(q.start, t),
                            !.cache_status = Some("skip")],
              !.reply = Some(Reply(200, body))]

\* lines 226-233 and 236: a fan-out candidate answered 2xx; next comes
\* set_session when the request has a session id, else add_log
FanoutSuccess(q, outcome, body, t) ==
    [q EXCEPT !.pc = IF IsSome(q.session_id)
                          /\ UnwrapOr(q.config.session, SessionConfigDefault).enabled
                     THEN "set_session" ELSE "add_log",
              !.log_entry =
                  [ForwardSuccessLog(q.log_entry, q.provider, q.effective_model, outcome)
                     EXCEPT !.provider = Some(q.provider.name),
                            !.status = "success",
                            !.status_code = Some(200),
                            !.duration_ms = elapsed_ms(q.start, t),
                            !.cache_status = Some("miss")],
              !.reply = Some(Reply(200, body))]

(***************************************************************************)
(* The steps of chat_completions, one per stretch between two awaits.      *)
(***************************************************************************)
InFlight == {o \in Reqs : rq[o].pc \notin {"idle", "done", "panicked", "abandoned"}}

\* tokio's RwLock grants r the write lock l once no other task holds a
\* guard of l
LockFree(r, l) == \A o \in Reqs \ {r} : l \notin rq[o].held

\* request r has run the pipeline up to its first await
Ran(r, run) ==
    /\ rq' = [rq EXCEPT ![r] = run.q]
    /\ cache' = run.dir

\* request r has moved on, the cache untouched
Moved(r, q) ==
    /\ rq' = [rq EXCEPT ![r] = q]
    /\ cache' = cache

\* lines 84-103: the request arrives; the log entry is created, the live
\* config is read, the session id is extracted. A request without a
\* session id goes on to the pipeline in the same stretch.
Start(r, request, readable, removable) ==
    /\ rq[r].pc = "idle"
    /\ \A o \in 1..(r - 1) : rq[o].pc # "idle"
    /\ Cardinality(InFlight) < MaxInFlight
    /\ LET session_config == UnwrapOr(config.session, SessionConfigDefault)
           session_id == IF session_config.enabled
                         THEN extract_session_id(request) ELSE None
           q == [IdleReq EXCEPT
                   !.request = request, !.config = config, !.start = now,
                   !.log_entry = [RequestLog_new(uuids + 1, now, request.model)
                                    EXCEPT !.session_id = session_id],
                   !.session_id = session_id,
                   !.after = {o \in Reqs : rq[o].pc \in {"done", "panicked"}}]
       IN IF IsSome(session_id)
          THEN Moved(r, [q EXCEPT !.pc = "get_session"])
          ELSE Ran(r, Pipeline(q, cache, now, readable, removable))
    /\ uuids' = uuids + 1
    /\ UNCHANGED <<config, now, logs, older, oldest, appended, sessions, rt>>

\* lines 106-109: get_session and the search for the pinned provider; with
\* no live pin on an enabled provider the pipeline follows in the same stretch
GetSession(r, readable, removable) ==
    /\ rq[r].pc = "get_session"
    /\ LET q == rq[r]
           session_config == UnwrapOr(q.config.session, SessionConfigDefault)
           pinned == get_session(sessions, Unwrap(q.session_id),
                                 session_config.ttl_seconds, now)
           provider == IF IsSome(pinned)
                       THEN FindPinnedProvider(q.config, Unwrap(pinned).provider_id)
                       ELSE None
       IN IF IsSome(provider)
          THEN Moved(r, [q EXCEPT !.pc = "touch_session",
                                  !.pin_age = Some(now - Unwrap(pinned).last_active),
                                  !.pinned = Unwrap(pinned),
                                  !.provider = Unwrap(provider)])
          ELSE Ran(r, Pipeline(q, cache, now, readable, removable))
    /\ UNCHANGED <<config, now, logs, older, oldest, appended, sessions, uuids, rt>>

\* lines 110-124: touch_session, the pinned fields of the log entry, and
\* the forward to the pinned provider up to the send
TouchSession(r) ==
    /\ rq[r].pc = "touch_session"
    /\ LockFree(r, "sessions")
    /\ LET q == rq[r]
           q1 == [q EXCEPT !.log_entry.session_pinned = Some(TRUE),
                           !.log_entry.effective_model = Some(q.pinned.model_id),
                           !.model_writes = @ + 1,
                           !.touched_at = Some(now)]
       IN /\ sessions' = touch_session(sessions, Unwrap(q.session_id), now)
          /\ rq' = [rq EXCEPT ![r] =
                     IF ForwardPanics(q.provider)
                     THEN [q1 EXCEPT !.pc = "panicked"]
                     ELSE [q1 EXCEPT !.pc = "pinned_forward",
                                     !.pin_sent = TRUE,
                                     !.contacted = Append(@, Contact(q.provider))]]
    /\ UNCHANGED <<config, now, logs, older, oldest, appended, cache, uuids, rt>>

\* lines 122-135: the pinned provider answers; a 2xx completes the log
\* entry, anything else falls through to the pipeline
PinnedResponse(r, outcome, readable, removable) ==
    /\ rq[r].pc = "pinned_forward"
    /\ LET q == [rq[r] EXCEPT !.answered = Append(@, Answer(outcome))]
           body == Body(q.provider, q.pinned.model_id, r)
       IN IF outcome.kind = "ok"
          THEN Moved(r, PinnedSuccess(q, outcome, body, now))
          ELSE Ran(r, Pipeline([q EXCEPT !.pin_failed = TRUE], cache, now, readable, removable))
    /\ UNCHANGED <<config, now, logs, older, oldest, appended, sessions, uuids, rt>>

\* lines 223-249: a fan-out candidate answers; a 2xx completes the log
\* entry and writes the cache, anything else moves on to the next candidate
FanoutResponse(r, outcome, writable) ==
    /\ rq[r].pc = "fanout_forward"
    /\ LET q == [rq[r] EXCEPT !.answered = Append(@, Answer(outcome))]
           cache_config == UnwrapOr(q.config.cache, CacheConfigDefault)
           key == cache_key(q.request.model, q.request.messages, q.request.extra)
           body == Body(q.provider, q.effective_model, r)
       IN IF outcome.kind = "ok"
          THEN /\ rq' = [rq EXCEPT ![r] =
                          [FanoutSuccess(q, outcome, body, now) EXCEPT
                              !.cache_wrote = cache_config.enabled /\ writable,
                              !.put_at = Some(now)]]
               /\ cache' = cache_put(cache_config, key, q.request.model, body, cache,
                                     now, writable)
          ELSE /\ rq' = [rq EXCEPT ![r] = NextCandidate(q, now)]
               /\ cache' = cache
    /\ UNCHANGED <<config, now, logs, older, oldest, appended, sessions, uuids, rt>>

\* lines 236-244: set_session after a fan-out success
SetSession(r) ==
    /\ rq[r].pc = "set_session"
    /\ LockFree(r, "sessions")
    /\ sessions' = set_session(sessions, Unwrap(rq[r].session_id), rq[r].provider.id,
                               rq[r].effective_model, now)
    /\ rq' = [rq EXCEPT ![r].pc = "add_log",
                        ![r].set_seq = 1 + Cardinality({o \in Reqs : rq[o].set_seq > 0})]
    /\ UNCHANGED <<config, now, logs, older, oldest, appended, cache, uuids, rt>>

\* state.add_log(log_entry).await and the return of the response
AddLog(r) ==
    /\ rq[r].pc = "add_log"
    /\ LockFree(r, "logs")
    /\ LET ring == add_log(oldest, older, logs, rq[r].log_entry)
       IN /\ logs' = ring.logs
          /\ older' = ring.older
          /\ oldest' = ring.oldest
    /\ appended' = appended + 1
    /\ rq' = [rq EXCEPT ![r].pc = "done", ![r].response = rq[r].reply,
                        ![r].logged = @ + 1, ![r].completed = appended + 1]
    /\ UNCHANGED <<config, now, sessions, cache, uuids, rt>>

\* time passes: a tick goes by while requests wait for an upstream answer or
\* none is being handled; the stretches of the handler between its awaits
\* and the waits for the locks are shorter than a tick
Tick ==
    /\ now < MaxTime
    /\ \A r \in Reqs :
          rq[r].pc \notin {"get_session", "touch_session", "set_session", "add_log"}
    /\ now' = now + 1
    /\ UNCHANGED <<config, logs, older, oldest, appended, sessions, cache, rq, uuids, rt>>

RtIdle == [phase |-> "idle"]

\* the state after AppState::new and any number of earlier requests: the
\* ring is empty, or one entry short of full
Init ==
    /\ config \in Configs
    /\ now = 0
    /\ logs = <<>>
    /\ older \in {0, MAX_LOGS - 1}
    /\ oldest = <<>>
    /\ appended = older
    /\ sessions = [k \in {} |-> NoPin]
    /\ cache = [k \in {} |-> CacheEntry(0, "", TextBody(""))]
    /\ rq = [r \in Reqs |-> IdleReq]
    /\ uuids = 0
    /\ rt = RtIdle

Next ==
    \/ \E r \in Reqs, request \in Requests, readable \in BOOLEAN, removable \in BOOLEAN :
          Start(r, request, readable, removable)
    \/ \E r \in Reqs, readable \in BOOLEAN, removable \in BOOLEAN :
          GetSession(r, readable, removable)
    \/ \E r \in Reqs : TouchSession(r)
    \/ \E r \in Reqs, outcome \in Outcomes, readable \in BOOLEAN, removable \in BOOLEAN :
          PinnedResponse(r, outcome, readable, removable)
    \/ \E r \in Reqs, outcome \in Outcomes, writable \in BOOLEAN :
          FanoutResponse(r, outcome, writable)
    \/ \E r \in Reqs : SetSession(r)
    \/ \E r \in Reqs : AddLog(r)
    \/ Tick

Spec == Init /\ [][Next]_vars

(***************************************************************************)
(* The orchestrator with sessions enabled and requests of one session for  *)
(* two models.                                                             *)
(***************************************************************************)
RaceRequests == { Request(m, Some("s1"), UserHello, NoExtra) : m \in {"m1", "m2"} }

InitRace ==
    /\ config = Config(<<PFailing, PGood>>, <<ProfileAuto>>, None, None,
                       Some(SessionConfig(TRUE, 0)))
    /\ now = 0
    /\ logs = <<>>
    /\ older = 0
    /\ oldest = <<>>
    /\ appended = 0
    /\ sessions = [k \in {} |-> NoPin]
    /\ cache = [k \in {} |-> CacheEntry(0, "", TextBody(""))]
    /\ rq = [r \in Reqs |-> IdleReq]
    /\ uuids = 0
    /\ rt = RtIdle

NextRace ==
    \/ \E r \in Reqs, request \in RaceRequests : Start(r, request, TRUE, TRUE)
    \/ \E r \in Reqs : GetSession(r, TRUE, TRUE)
    \/ \E r \in Reqs : TouchSession(r)
    \/ \E r \in Reqs, outcome \in Outcomes : PinnedResponse(r, outcome, TRUE, TRUE)
    \/ \E r \in Reqs, outcome \in Outcomes : FanoutResponse(r, outcome, TRUE)
    \/ \E r \in Reqs : SetSession(r)
    \/ \E r \in Reqs : AddLog(r)
    \/ Tick

SpecRace == InitRace /\ [][NextRace]_vars

(***************************************************************************)
(* Two requests with one cache key, caching enabled and sessions disabled, *)
(* with the file of the entry as the bytes it holds. The handlers run on   *)
(* the worker threads of the runtime, and cache::put is fs::write: the     *)
(* file is created or truncated, then the data is written from offset 0.   *)
(***************************************************************************)
Putters == {1, 2}

\* the response bodies the upstream may answer with
UpstreamBodies == {<<"a">>, <<"b", "b">>, <<"c", "c">>}

\* serde_json::to_vec_pretty of the entry of a body
SerEntry(body) == <<"{">> \o body \o <<"}">>

\* serde_json::from_slice of the bytes of a file: the body of the entry, or
\* nothing when the bytes are not one entry
DeEntry(data) ==
    IF \E b \in UpstreamBodies : data = SerEntry(b)
    THEN Some(CHOOSE b \in UpstreamBodies : data = SerEntry(b))
    ELSE None

\* write_all on a file just opened: the data replaces the bytes from offset 0
\* and the bytes behind it stay
WriteAt0(content, data) ==
    IF Len(data) >= Len(content) THEN data
    ELSE data \o SubSeq(content, Len(data) + 1, Len(content))

IdlePut ==
    [pc |-> "get", missed |-> FALSE, body |-> None, response |-> None,
     put_seq |-> 0, overlapped |-> FALSE, status |-> 0]

\* cache::get of the handler: a hit answers with the body of the entry
PutLookup(w) ==
    /\ rt.w[w].pc = "get"
    /\ LET hit == IF rt.exists THEN DeEntry(rt.file) ELSE None
       IN rt' = [rt EXCEPT !.w[w] =
                    IF IsSome(hit)
                    THEN [@ EXCEPT !.pc = "done", !.response = hit, !.status = 200]
                    ELSE [@ EXCEPT !.pc = "forward", !.missed = TRUE]]
    /\ UNCHANGED <<config, now, logs, older, oldest, appended, sessions, cache, rq, uuids>>

\* the fan-out: a 2xx answer of a provider with its body, or no provider
\* answering 2xx
PutForwarded(w, ok, body) ==
    /\ rt.w[w].pc = "forward"
    /\ rt' = [rt EXCEPT !.w[w] =
                 IF ok THEN [@ EXCEPT !.pc = "create", !.body = Some(body)]
                 ELSE [@ EXCEPT !.pc = "done", !.status = 503,
                                !.response = Some(<<"e">>)]]
    /\ UNCHANGED <<config, now, logs, older, oldest, appended, sessions, cache, rq, uuids>>

\* fs::write, File::create: the file is created or truncated; when it cannot
\* be opened the error is dropped and the handler answers
PutCreate(w, opened) ==
    /\ rt.w[w].pc = "create"
    /\ rt' = IF opened
             THEN [rt EXCEPT !.exists = TRUE, !.file = <<>>,
                             !.w = [o \in Putters |->
                                       IF o = w
                                       THEN [rt.w[o] EXCEPT !.pc = "write",
                                                !.overlapped =
                                                    \E x \in Putters \ {w} :
                                                        rt.w[x].pc = "write"]
                                       ELSE IF rt.w[o].pc = "write"
                                            THEN [rt.w[o] EXCEPT !.overlapped = TRUE]
                                            ELSE rt.w[o]]]
             ELSE [rt EXCEPT !.w[w] = [@ EXCEPT !.pc = "done", !.status = 200,
                                                !.response = rt.w[w].body]]
    /\ UNCHANGED <<config, now, logs, older, oldest, appended, sessions, cache, rq, uuids>>

\* fs::write, write_all, then the answer of the handler
PutWriteAll(w) ==
    /\ rt.w[w].pc = "write"
    /\ rt' = [rt EXCEPT !.file = WriteAt0(rt.file, SerEntry(Unwrap(rt.w[w].body))),
                        !.puts = rt.puts + 1,
                        !.w[w] = [@ EXCEPT !.pc = "done", !.status = 200,
                                           !.put_seq = rt.puts + 1,
                                           !.response = rt.w[w].body]]
    /\ UNCHANGED <<config, now, logs, older, oldest, appended, sessions, cache, rq, uuids>>

InitPut ==
    /\ config = Config(<<PFailing, PGood>>, <<ProfileAuto>>, None,
                       Some(CacheConfig(TRUE, 1)), None)
    /\ now = 0
    /\ logs = <<>>
    /\ older = 0
    /\ oldest = <<>>
    /\ appended = 0
    /\ sessions = [k \in {} |-> NoPin]
    /\ cache = [k \in {} |-> CacheEntry(0, "", TextBody(""))]
    /\ rq = [r \in Reqs |-> IdleReq]
    /\ uuids = 0
    /\ rt = [exists |-> FALSE, file |-> <<>>, puts |-> 0, w |-> [w \in Putters |-> IdlePut]]

NextPut ==
    \/ \E w \in Putters : PutLookup(w)
    \/ \E w \in Putters, ok \in BOOLEAN, body \in UpstreamBodies : PutForwarded(w, ok, body)
    \/ \E w \in Putters, opened \in BOOLEAN : PutCreate(w, opened)
    \/ \E w \in Putters : PutWriteAll(w)

SpecPut == InitPut /\ [][NextPut]_vars

(***************************************************************************)
(* The orchestrator while PUT /api/config replaces the live config.        *)
(***************************************************************************)
PGoodOff == [PGood EXCEPT !.enabled = FALSE]

ReconfigConfigs ==
    { Config(<<PFailing, PGood>>, <<ProfileAuto>>, None, None,
             Some(SessionConfig(TRUE, 0))),
      Config(<<PFailing, PGoodOff>>, <<ProfileAuto>>, None, None,
             Some(SessionConfig(TRUE, 0))),
      Config(<<PFailing, PGood>>, <<ProfileMapped>>, Some(ScorerConfigDefault),
             Some(CacheConfig(TRUE, 0)), None) }

ReconfigRequests == { Request("m1", Some("s1"), UserHello, NoExtra) }

\* AppState::update_config up to the release of the write guard: the live
\* config is replaced
UpdateConfig(c) ==
    /\ c # config
    /\ \A r \in Reqs : "config" \notin rq[r].held
    /\ config' = c
    /\ UNCHANGED <<now, logs, older, oldest, appended, sessions, cache, rq, uuids, rt>>

InitReconfig ==
    /\ config \in ReconfigConfigs
    /\ now = 0
    /\ logs = <<>>
    /\ older = 0
    /\ oldest = <<>>
    /\ appended = 0
    /\ sessions = [k \in {} |-> NoPin]
    /\ cache = [k \in {} |-> CacheEntry(0, "", TextBody(""))]
    /\ rq = [r \in Reqs |-> IdleReq]
    /\ uuids = 0
    /\ rt = RtIdle

NextReconfig ==
    \/ \E r \in Reqs, request \in ReconfigRequests : Start(r, request, TRUE, TRUE)
    \/ \E r \in Reqs : GetSession(r, TRUE, TRUE)
    \/ \E r \in Reqs : TouchSession(r)
    \/ \E r \in Reqs, outcome \in Outcomes : PinnedResponse(r, outcome, TRUE, TRUE)
    \/ \E r \in Reqs, outcome \in Outcomes : FanoutResponse(r, outcome, TRUE)
    \/ \E r \in Reqs : SetSession(r)
    \/ \E r \in Reqs : AddLog(r)
    \/ \E c \in ReconfigConfigs : UpdateConfig(c)
    \/ Tick

SpecReconfig == InitReconfig /\ [][NextReconfig]_vars

(***************************************************************************)
(* The orchestrator with clients that disconnect: the server drops the     *)
(* future of the handler where it is suspended.                            *)
(***************************************************************************)
\* the awaits of chat_completions: the config read of a request that has
\* just arrived, the session lookup and touch, the upstream sends, the
\* session write and the log append
SuspensionPoints ==
    {"idle", "get_session", "touch_session", "pinned_forward", "fanout_forward",
     "set_session", "add_log"}

\* mutant: the handler is dropped after the push of add_log
AbandonAfterPush(r) ==
    /\ rq[r].pc \in SuspensionPoints
    /\ rq' = [rq EXCEPT ![r].pc = "abandoned", ![r].held = {}]
    /\ IF rq[r].pc = "add_log"
       THEN LET ring == add_log(oldest, older, logs, rq[r].log_entry)
            IN /\ logs' = ring.logs
               /\ older' = ring.older
               /\ oldest' = ring.oldest
       ELSE UNCHANGED <<logs, older, oldest>>
    /\ UNCHANGED <<config, now, appended, sessions, cache, uuids, rt>>

\* the client of r disconnects: the future is dropped at the await it is
\* suspended at, and with it the log entry it owns and the guards it holds
Abandon(r) ==
    /\ rq[r].pc \in SuspensionPoints
    /\ rq' = [rq EXCEPT ![r].pc = "abandoned", ![r].held = {}]
    /\ UNCHANGED <<logs, older, oldest>>
    /\ UNCHANGED <<config, now, appended, sessions, cache, uuids, rt>>

NextCancel ==
    \/ Next
    \/ \E r \in Reqs : Abandon(r)

SpecCancel == Init /\ [][NextCancel]_vars

(***************************************************************************)
(* The router on its own: one call of route_request_with_profile on any    *)
(* of the configurations and inputs below.                                 *)
(***************************************************************************)
\* the model lists of a provider: costs differ between the lists
RouterModelLists ==
    {<<Model("m1", 1, 2)>>, <<Model("m2", 3, 4)>>, <<Model("m1", 2, 2), Model("m2", 4, 4)>>}
RouterTiers == {"Free", "Cheap", "Subscription"}

RouterProvidersA ==
    {Provider("a", "A", "OpenAI", None, t, e, pr, ms) :
        t \in RouterTiers, e \in BOOLEAN, pr \in {0, 1}, ms \in RouterModelLists}
RouterProvidersB ==
    {Provider("b", "B", "OpenAI", None, t, e, 1, ms) :
        t \in RouterTiers, e \in BOOLEAN, ms \in RouterModelLists}

\* a profile whose agentic mapping sends simple requests to m2 at provider b
ProfileAgentic ==
    RoutingProfile("auto", AllTiers, EmptyMap,
                   [k \in {"simple"} |-> ModelMapping("m2", "b")])
\* a second profile, selected by "router/eco" only
ProfileEco == RoutingProfile("eco", <<"Free", "Cheap">>, EmptyMap, EmptyMap)

RouterProfileLists ==
    {<<ProfileAuto>>, <<ProfileMapped>>, <<ProfileAgentic>>, <<ProfileFree, ProfileEco>>, <<>>}

RouterConfigs ==
    {Config(<<a, b>>, profiles, None, None, None) :
        a \in RouterProvidersA, b \in RouterProvidersB, profiles \in RouterProfileLists}

RouterModelIds == {"m1", "m2", "nonexistent"}
RouterComplexities ==
    {None, Some("Simple"), Some("Medium"), Some("Complex"), Some("Reasoning")}
RouterOverrides == {None, Some("eco")}

\* one call on the live config: the input and the list returned, or the
\* panic of the index
RouteCall(model_id, complexity, profile_override, use_agentic) ==
    /\ rt.phase = "idle"
    /\ rt' = [phase |-> IF RoutePanics(config, profile_override)
                        THEN "panicked" ELSE "returned",
              model_id |-> model_id, complexity |-> complexity,
              profile_override |-> profile_override, use_agentic |-> use_agentic,
              result |-> IF RoutePanics(config, profile_override) THEN <<>>
                         ELSE route_request_with_profile(config, model_id, complexity,
                                                         profile_override, use_agentic),
              resolved |-> resolve_model_id_with_profile(config, model_id, complexity,
                                                         profile_override, use_agentic)]
    /\ UNCHANGED <<config, now, logs, older, oldest, appended, sessions, cache, rq, uuids>>

InitRouter ==
    /\ config \in RouterConfigs
    /\ now = 0
    /\ logs = <<>>
    /\ older = 0
    /\ oldest = <<>>
    /\ appended = 0
    /\ sessions = [k \in {} |-> NoPin]
    /\ cache = [k \in {} |-> CacheEntry(0, "", TextBody(""))]
    /\ rq = [r \in Reqs |-> IdleReq]
    /\ uuids = 0
    /\ rt = RtIdle

NextRouter ==
    \E model_id \in RouterModelIds, complexity \in RouterComplexities,
       profile_override \in RouterOverrides, use_agentic \in BOOLEAN :
          RouteCall(model_id, complexity, profile_override, use_agentic)

SpecRouter == InitRouter /\ [][NextRouter]_vars

(***************************************************************************)
(* cache_key on its own: the keys of two requests, each computed under any *)
(* iteration order of the request's extras.                                *)
(***************************************************************************)
UserBye == <<[role |-> "user", content |-> "bye"]>>

\* the extras of a request: two recognized parameters and one that is not
KeyExtrasOf(D) ==
    {e \in [D -> {JNumber("0"), JNumber("1"), JString("u")}] :
        /\ "temperature" \in D => e["temperature"] \in {JNumber("0"), JNumber("1")}
        /\ "seed" \in D => e["seed"] = JNumber("1")
        /\ "user" \in D => e["user"] \in {JString("u"), JNumber("1")}}
KeyRequests ==
    { Request(m, None, msgs, e) :
        m \in {"m1", "m2"}, msgs \in {UserHello, UserBye},
        e \in UNION {KeyExtrasOf(D) : D \in SUBSET {"temperature", "seed", "user"}} }

\* the orders in which a HashMap may yield its keys
IterationOrders(extra) ==
    {iter \in [1..Cardinality(DOMAIN extra) -> DOMAIN extra] : Range(iter) = DOMAIN extra}

\* cache_key on request i of the two, its extras iterated in the order iter
CacheKeyCall(i, iter) ==
    /\ rt.keys[i] = None
    /\ rt' = [rt EXCEPT !.keys[i] = Some(cache_key_input(rt.requests[i].model,
                                                          rt.requests[i].messages,
                                                          rt.requests[i].extra, iter)),
                        !.iters[i] = iter]
    /\ UNCHANGED <<config, now, logs, older, oldest, appended, sessions, cache, rq, uuids>>

InitKey ==
    /\ config \in {Config(<<>>, <<ProfileAuto>>, None, None, None)}
    /\ now = 0
    /\ logs = <<>>
    /\ older = 0
    /\ oldest = <<>>
    /\ appended = 0
    /\ sessions = [k \in {} |-> NoPin]
    /\ cache = [k \in {} |-> CacheEntry(0, "", TextBody(""))]
    /\ rq = [r \in Reqs |-> IdleReq]
    /\ uuids = 0
    /\ \E a \in KeyRequests, b \in KeyRequests :
          rt = [requests |-> <<a, b>>, keys |-> <<None, None>>, iters |-> <<<<>>, <<>>>>]

NextKey ==
    \E i \in 1..2 : \E iter \in IterationOrders(rt.requests[i].extra) :
        CacheKeyCall(i, iter)

SpecKey == InitKey /\ [][NextKey]_vars

(***************************************************************************)
(* The cache on its own: get and put on a directory, for a cache config    *)
(* that is enabled or not, while the clock advances.                       *)
(***************************************************************************)
CacheKeys == {"k1", "k2"}
CacheBodies == {TextBody("a"), TextBody("b")}

\* the cache config of the live config
CacheCfg == UnwrapOr(config.cache, CacheConfigDefault)

\* the directory at the start: empty, or holding one entry under k1 written
\* by an earlier process, on a clock that may have been ahead
CacheDirs ==
    {[k \in {} |-> CacheEntry(0, "", TextBody(""))]}
    \cup {[k \in {"k1"} |-> CacheEntry(at, "m1", TextBody("a"))] : at \in 0..1}

\* cache::get(config, key) at the present time: rt records the call, the
\* directory before and after it, and the value returned
CacheGet(key, readable, removable) ==
    /\ rt' = [op |-> "get", key |-> key, t |-> now, ok |-> readable,
              removable |-> removable, before |-> cache,
              after |-> cache_get(CacheCfg, key, cache, now, readable, removable).dir,
              body |-> cache_get(CacheCfg, key, cache, now, readable, removable).body]
    /\ cache' = cache_get(CacheCfg, key, cache, now, readable, removable).dir
    /\ UNCHANGED <<config, now, logs, older, oldest, appended, sessions, rq, uuids>>

\* cache::put(config, key, model, response_body) at the present time
CachePut(key, body, writable) ==
    /\ rt' = [op |-> "put", key |-> key, t |-> now, ok |-> writable,
              removable |-> TRUE, before |-> cache,
              after |-> cache_put(CacheCfg, key, "m1", body, cache, now, writable),
              body |-> None]
    /\ cache' = cache_put(CacheCfg, key, "m1", body, cache, now, writable)
    /\ UNCHANGED <<config, now, logs, older, oldest, appended, sessions, rq, uuids>>

\* the clock advances by one tick
CacheTick ==
    /\ now < MaxCacheTime
    /\ now' = now + 1
    /\ UNCHANGED <<config, logs, older, oldest, appended, sessions, cache, rq, uuids, rt>>

InitCache ==
    /\ config \in {Config(<<>>, <<ProfileAuto>>, None, Some(CacheConfig(e, ttl)), None) :
                       e \in BOOLEAN, ttl \in 0..1}
    /\ now = 0
    /\ logs = <<>>
    /\ older = 0
    /\ oldest = <<>>
    /\ appended = 0
    /\ sessions = [k \in {} |-> NoPin]
    /\ cache \in CacheDirs
    /\ rq = [r \in Reqs |-> IdleReq]
    /\ uuids = 0
    /\ rt = [op |-> "none", key |-> "", t |-> 0, ok |-> TRUE, removable |-> TRUE,
             before |-> cache, after |-> cache, body |-> None]

NextCache ==
    \/ \E key \in CacheKeys, readable \in BOOLEAN, removable \in BOOLEAN :
          CacheGet(key, readable, removable)
    \/ \E key \in CacheKeys, body \in CacheBodies, writable \in BOOLEAN :
          CachePut(key, body, writable)
    \/ CacheTick

SpecCache == InitCache /\ [][NextCache]_vars

(***************************************************************************)
(* The log ring on its own: add_log and get_logs from tasks that run in    *)
(* parallel. rt.lock is the RwLock of AppState.logs: a writer holds it     *)
(* from its push to the end of its drain, a reader while it clones.        *)
(***************************************************************************)
\* two entries at the old end of a ring that is one entry short of full
OldEntries == <<RequestLog_new(1, 0, "m1"), RequestLog_new(2, 0, "m2")>>

\* the number of entries of a ring
RingLen(ring) == Len(ring.oldest) + ring.older + Len(ring.logs)

\* add_log up to its push: the write lock is taken and the entry pushed
LogsPush(model) ==
    /\ rt.lock = "free"
    /\ uuids < Len(OldEntries) + MaxLogCalls
    /\ uuids' = uuids + 1
    /\ logs' = Append(logs, RequestLog_new(uuids + 1, now, model))
    /\ rt' = [rt EXCEPT !.lock = "write",
                        !.pushed = Append(@, RequestLog_new(uuids + 1, now, model))]
    /\ UNCHANGED <<config, now, older, oldest, appended, sessions, cache, rq>>

\* add_log from the length check to its return: the drain, and the write
\* lock is released
LogsDrain ==
    /\ rt.lock = "write"
    /\ logs' = drain(oldest, older, logs,
                     IF Len(oldest) + older + Len(logs) > MAX_LOGS
                     THEN Len(oldest) + older + Len(logs) - MAX_LOGS ELSE 0).logs
    /\ older' = drain(oldest, older, logs,
                      IF Len(oldest) + older + Len(logs) > MAX_LOGS
                      THEN Len(oldest) + older + Len(logs) - MAX_LOGS ELSE 0).older
    /\ oldest' = drain(oldest, older, logs,
                       IF Len(oldest) + older + Len(logs) > MAX_LOGS
                       THEN Len(oldest) + older + Len(logs) - MAX_LOGS ELSE 0).oldest
    /\ appended' = appended + 1
    /\ rt' = [rt EXCEPT !.lock = "free"]
    /\ UNCHANGED <<config, now, sessions, cache, rq, uuids>>

\* mutant: the reader does not wait for the writer
GetLogsUnlocked ==
    /\ rt' = [rt EXCEPT !.seen = Some([oldest |-> oldest, older |-> older, logs |-> logs])]
    /\ UNCHANGED <<config, now, logs, older, oldest, appended, sessions, cache, rq, uuids>>

\* get_logs: the read lock is granted when no writer holds the lock, and
\* the reader gets a copy of the ring
GetLogs ==
    /\ rt.lock # "write"
    /\ rt' = [rt EXCEPT !.seen = Some([oldest |-> oldest, older |-> older, logs |-> logs])]
    /\ UNCHANGED <<config, now, logs, older, oldest, appended, sessions, cache, rq, uuids>>

InitLogs ==
    /\ config \in {Config(<<>>, <<ProfileAuto>>, None, None, None)}
    /\ now = 0
    /\ logs = <<>>
    /\ \/ oldest = <<>> /\ older = 0
       \/ oldest = OldEntries /\ older = MAX_LOGS - 1 - Len(OldEntries)
    /\ appended = Len(oldest) + older
    /\ sessions = [k \in {} |-> NoPin]
    /\ cache = [k \in {} |-> CacheEntry(0, "", TextBody(""))]
    /\ rq = [r \in Reqs |-> IdleReq]
    /\ uuids = Len(OldEntries)
    /\ rt = [lock |-> "free", seen |-> None, pushed |-> <<>>,
             first |-> [oldest |-> oldest, older |-> older, logs |-> <<>>]]

NextLogs ==
    \/ \E model \in {"m1", "m2"} : LogsPush(model)
    \/ LogsDrain
    \/ GetLogs

SpecLogs == InitLogs /\ [][NextLogs]_vars

(***************************************************************************)
(* forward_to_provider on its own: one forward of a request to a provider, *)
(* from the headers of the client to the log entry after the answer.       *)
(***************************************************************************)
ForwardProviders ==
    {Provider("p", "P", kind, key, "Cheap", TRUE, 0, ms) :
        kind \in {"OpenAI", "Anthropic"},
        key \in {None, Some(""), Some("sk-ok"), Some("sk-bad-newline")},
        ms \in {<<Model("m1", 1, 2)>>, <<Model("m2", 3, 4), Model("m1", 1, 2)>>}}

\* the answers of the upstream; an Anthropic answer parses with both counts
\* or not at all
ForwardOutcomes ==
    {[kind |-> "ok", usage |-> u] :
        u \in {None, Some(Usage(Some(10), Some(5))), Some(Usage(Some(10), None)),
               Some(Usage(None, Some(5))), Some(Usage(None, None))}}
    \cup {[kind |-> k, usage |-> None] : k \in {"non2xx", "transport"}}

\* up to the send: the headers are built, or a header value fails to parse
ForwardSend ==
    /\ rt.phase = "idle"
    /\ rt' = IF ForwardPanics(rt.provider)
             THEN [rt EXCEPT !.phase = "panicked"]
             ELSE [rt EXCEPT !.phase = "sent",
                             !.sent = forward_headers(rt.headers, rt.provider)]
    /\ UNCHANGED <<config, now, logs, older, oldest, appended, sessions, cache, rq, uuids>>

\* the answer: on a 2xx the usage and the cost are written to the log entry
ForwardAnswer(outcome) ==
    /\ rt.phase = "sent"
    /\ rt.provider.provider_type = "Anthropic" =>
          (IsSome(outcome.usage) =>
              IsSome(Unwrap(outcome.usage).prompt_tokens)
              /\ IsSome(Unwrap(outcome.usage).completion_tokens))
    /\ rt' = [rt EXCEPT !.phase = "answered", !.outcome = outcome,
                        !.log = IF outcome.kind = "ok"
                                THEN ForwardSuccessLog(rt.log, rt.provider,
                                                       rt.effective_model, outcome)
                                ELSE rt.log]
    /\ UNCHANGED <<config, now, logs, older, oldest, appended, sessions, cache, rq, uuids>>

InitForward ==
    /\ config \in {Config(<<>>, <<ProfileAuto>>, None, None, None)}
    /\ now = 0
    /\ logs = <<>>
    /\ older = 0
    /\ oldest = <<>>
    /\ appended = 0
    /\ sessions = [k \in {} |-> NoPin]
    /\ cache = [k \in {} |-> CacheEntry(0, "", TextBody(""))]
    /\ rq = [r \in Reqs |-> IdleReq]
    /\ uuids = 0
    /\ \E provider \in ForwardProviders, authorization \in {None, Some("Bearer client")},
          effective_model \in {"m1", "m2"} :
          rt = [phase |-> "idle", provider |-> provider,
                headers |-> Headers(authorization), effective_model |-> effective_model,
                sent |-> Headers(None), outcome |-> [kind |-> "none", usage |-> None],
                log |-> RequestLog_new(1, 0, "m1")]

NextForward ==
    \/ ForwardSend
    \/ \E outcome \in ForwardOutcomes : ForwardAnswer(outcome)

SpecForward == InitForward /\ [][NextForward]_vars

(***************************************************************************)
(* The session id of a request on its own: lines 96-103 of the handler on  *)
(* any of the requests below, with sessions enabled or not.                *)
(***************************************************************************)
Msg(role, content) == [role |-> role, content |-> content]

SidMessages ==
    {<<>>,
     <<Msg("assistant", "a")>>,
     <<Msg("user", "")>>,
     <<Msg("user", "u1"), Msg("user", "u2")>>,
     <<Msg("system", "s1"), Msg("user", "u1")>>,
     <<Msg("system", "s1"), Msg("assistant", "a"), Msg("system", "s2"), Msg("user", "u1")>>,
     <<Msg("user", "u1"), Msg("system", "s1")>>,
     <<Msg("system", "s1")>>}

SidRequests ==
    {Request("m1", header, messages, extra) :
        header \in {None, Some(""), Some("h1")},
        messages \in SidMessages,
        extra \in {NoExtra} \cup
                  {[k \in {"conversation_id"} |-> v] :
                      v \in {JString(""), JString("c1"), JNumber("7")}}}

\* lines 97-103: the session id of the request in rt under the session
\* config of the live config
SessionIdCall ==
    /\ rt.phase = "idle"
    /\ rt' = [rt EXCEPT !.phase = "computed",
                        !.session_id =
                            IF UnwrapOr(config.session, SessionConfigDefault).enabled
                            THEN extract_session_id(rt.request) ELSE None]
    /\ UNCHANGED <<config, now, logs, older, oldest, appended, sessions, cache, rq, uuids>>

InitSid ==
    /\ config \in {Config(<<>>, <<ProfileAuto>>, None, None, s) :
                       s \in {None, Some(SessionConfig(FALSE, 0)),
                              Some(SessionConfig(TRUE, 0))}}
    /\ now = 0
    /\ logs = <<>>
    /\ older = 0
    /\ oldest = <<>>
    /\ appended = 0
    /\ sessions = [k \in {} |-> NoPin]
    /\ cache = [k \in {} |-> CacheEntry(0, "", TextBody(""))]
    /\ rq = [r \in Reqs |-> IdleReq]
    /\ uuids = 0
    /\ \E request \in SidRequests :
          rt = [phase |-> "idle", request |-> request, session_id |-> None]

NextSid == SessionIdCall

SpecSid == InitSid /\ [][NextSid]_vars

(***************************************************************************)
(* The configuration file: POST /api/config and the boot, on their own.    *)
(* A JSON text is known by the value it parses to; a text that breaks off  *)
(* parses to nothing.                                                      *)
(***************************************************************************)
JNull == [t |-> "null", v |-> ""]
JBool(b) == [t |-> "bool", v |-> b]
JArray(s) == [t |-> "array", v |-> s]
JObject(f) == [t |-> "object", v |-> f]

\* derive(Serialize): a struct is an object of its fields, None is null, a
\* unit variant of an enum is its name
SerOption(o, Ser(_)) == IF o = None THEN JNull ELSE Ser(Unwrap(o))
SerSeq(s, Ser(_)) == JArray([i \in 1..Len(s) |-> Ser(s[i])])
SerMap(m, Ser(_)) == JObject([k \in DOMAIN m |-> Ser(m[k])])
SerNumbers(r) == JObject([k \in DOMAIN r |-> JNumber(r[k])])
SerModel(m) ==
    JObject([id |-> JString(m.id),
             input_cost_per_1m |-> JNumber(m.input_cost_per_1m),
             output_cost_per_1m |-> JNumber(m.output_cost_per_1m)])
SerProvider(p) ==
    JObject([id |-> JString(p.id), name |-> JString(p.name),
             provider_type |-> JString(p.provider_type),
             api_key |-> SerOption(p.api_key, JString),
             tier |-> JString(p.tier), enabled |-> JBool(p.enabled),
             priority |-> JNumber(p.priority), models |-> SerSeq(p.models, SerModel)])
SerModelMapping(m) ==
    JObject([model_id |-> JString(m.model_id), provider_id |-> JString(m.provider_id)])
SerRoutingProfile(p) ==
    JObject([name |-> JString(p.name),
             allowed_tiers |-> SerSeq(p.allowed_tiers, JString),
             model_mapping |-> SerMap(p.model_mapping, SerModelMapping),
             agentic_model_mapping |-> SerMap(p.agentic_model_mapping, SerModelMapping)])
SerTtlConfig(c) ==
    JObject([enabled |-> JBool(c.enabled), ttl_seconds |-> JNumber(c.ttl_seconds)])
SerScorerConfig(s) ==
    JObject([enabled |-> JBool(s.enabled), weights |-> SerNumbers(s.weights),
             tier_boundaries |-> SerNumbers(s.tier_boundaries),
             token_thresholds |-> SerNumbers(s.token_thresholds),
             max_tokens_force_complex |-> JNumber(s.max_tokens_force_complex)])
\* serde_json::to_string_pretty(&config)
SerConfig(c) ==
    JObject([providers |-> SerSeq(c.providers, SerProvider),
             profiles |-> SerSeq(c.profiles, SerRoutingProfile),
             active_profile |-> JString(c.active_profile),
             scorer |-> SerOption(c.scorer, SerScorerConfig),
             cache |-> SerOption(c.cache, SerTtlConfig),
             agentic_mode |-> JBool(c.agentic_mode),
             session |-> SerOption(c.session, SerTtlConfig)])

\* derive(Deserialize): Some of the value, or None for an error; a field
\* that is missing or of another type is an error, unless it is marked
\* serde(default)
Has(j, keys) == j.t = "object" /\ keys \subseteq DOMAIN j.v
DeString(j) == IF j.t = "string" THEN Some(j.v) ELSE None
DeBool(j) == IF j.t = "bool" THEN Some(j.v) ELSE None
DeNumber(j) == IF j.t = "number" THEN Some(j.v) ELSE None
DeEnum(j, variants) == IF j.t = "string" /\ j.v \in variants THEN Some(j.v) ELSE None
DeTier(j) == DeEnum(j, Tier)
DeProviderType(j) ==
    DeEnum(j, {"OpenAI", "Anthropic", "Google", "DeepSeek", "XAI", "CustomOpenAI"})
DeOption(j, De(_)) ==
    IF j.t = "null" THEN Some(None)
    ELSE IF IsSome(De(j)) THEN Some(De(j)) ELSE None
DeSeq(j, De(_)) ==
    IF j.t = "array" /\ \A i \in DOMAIN j.v : IsSome(De(j.v[i]))
    THEN Some([i \in DOMAIN j.v |-> Unwrap(De(j.v[i]))]) ELSE None
DeMap(j, De(_)) ==
    IF j.t = "object" /\ \A k \in DOMAIN j.v : IsSome(De(j.v[k]))
    THEN Some([k \in DOMAIN j.v |-> Unwrap(De(j.v[k]))]) ELSE None
DeDefault(j, k, De(_), d) == IF k \in DOMAIN j.v THEN De(j.v[k]) ELSE Some(d)
DeNumbers(j, keys) ==
    IF Has(j, keys) /\ \A k \in keys : j.v[k].t = "number"
    THEN Some([k \in keys |-> j.v[k].v]) ELSE None
DeModel(j) ==
    IF /\ Has(j, {"id", "input_cost_per_1m", "output_cost_per_1m"})
       /\ IsSome(DeString(j.v.id))
       /\ IsSome(DeNumber(j.v.input_cost_per_1m))
       /\ IsSome(DeNumber(j.v.output_cost_per_1m))
    THEN Some(Model(j.v.id.v, j.v.input_cost_per_1m.v, j.v.output_cost_per_1m.v))
    ELSE None
DeProvider(j) ==
    IF /\ Has(j, {"id", "name", "provider_type", "tier", "enabled", "priority", "models"})
       /\ IsSome(DeString(j.v.id)) /\ IsSome(DeString(j.v.name))
       /\ IsSome(DeProviderType(j.v.provider_type))
       /\ ("api_key" \in DOMAIN j.v => IsSome(DeOption(j.v.api_key, DeString)))
       /\ IsSome(DeTier(j.v.tier)) /\ IsSome(DeBool(j.v.enabled))
       /\ IsSome(DeNumber(j.v.priority)) /\ IsSome(DeSeq(j.v.models, DeModel))
    THEN Some(Provider(j.v.id.v, j.v.name.v, j.v.provider_type.v,
                       IF "api_key" \in DOMAIN j.v
                       THEN Unwrap(DeOption(j.v.api_key, DeString)) ELSE None,
                       j.v.tier.v, j.v.enabled.v, j.v.priority.v,
                       Unwrap(DeSeq(j.v.models, DeModel))))
    ELSE None
DeModelMapping(j) ==
    IF /\ Has(j, {"model_id", "provider_id"})
       /\ IsSome(DeString(j.v.model_id)) /\ IsSome(DeString(j.v.provider_id))
    THEN Some(ModelMapping(j.v.model_id.v, j.v.provider_id.v))
    ELSE None
DeMappings(j) == DeMap(j, DeModelMapping)
DeRoutingProfile(j) ==
    IF /\ Has(j, {"name", "allowed_tiers"})
       /\ IsSome(DeString(j.v.name)) /\ IsSome(DeSeq(j.v.allowed_tiers, DeTier))
       /\ IsSome(DeDefault(j, "model_mapping", DeMappings, EmptyMap))
       /\ IsSome(DeDefault(j, "agentic_model_mapping", DeMappings, EmptyMap))
    THEN Some(RoutingProfile(j.v.name.v, Unwrap(DeSeq(j.v.allowed_tiers, DeTier)),
                  Unwrap(DeDefault(j, "model_mapping", DeMappings, EmptyMap)),
                  Unwrap(DeDefault(j, "agentic_model_mapping", DeMappings, EmptyMap))))
    ELSE None
DeSessionConfig(j) ==
    IF /\ Has(j, {"enabled", "ttl_seconds"})
       /\ IsSome(DeBool(j.v.enabled)) /\ IsSome(DeNumber(j.v.ttl_seconds))
    THEN Some(SessionConfig(j.v.enabled.v, j.v.ttl_seconds.v))
    ELSE None
DeCacheConfig(j) ==
    IF /\ Has(j, {"enabled", "ttl_seconds"})
       /\ IsSome(DeBool(j.v.enabled)) /\ IsSome(DeNumber(j.v.ttl_seconds))
    THEN Some(CacheConfig(j.v.enabled.v, j.v.ttl_seconds.v))
    ELSE None
DeScorerConfig(j) ==
    IF /\ Has(j, {"enabled", "weights", "tier_boundaries", "token_thresholds",
                  "max_tokens_force_complex"})
       /\ IsSome(DeBool(j.v.enabled))
       /\ IsSome(DeNumbers(j.v.weights, DOMAIN ScorerWeightsDefault))
       /\ IsSome(DeNumbers(j.v.tier_boundaries,
                           {"simple_upper", "medium_upper", "complex_upper"}))
       /\ IsSome(DeNumbers(j.v.token_thresholds, {"short_upper", "long_lower"}))
       /\ IsSome(DeNumber(j.v.max_tokens_force_complex))
    THEN Some([enabled |-> j.v.enabled.v,
               weights |-> Unwrap(DeNumbers(j.v.weights, DOMAIN ScorerWeightsDefault)),
               tier_boundaries |->
                   Unwrap(DeNumbers(j.v.tier_boundaries,
                                    {"simple_upper", "medium_upper", "complex_upper"})),
               token_thresholds |->
                   Unwrap(DeNumbers(j.v.token_thresholds, {"short_upper", "long_lower"})),
               max_tokens_force_complex |-> j.v.max_tokens_force_complex.v])
    ELSE None
DeOptScorer(j) == DeOption(j, DeScorerConfig)
DeOptCache(j) == DeOption(j, DeCacheConfig)
DeOptSession(j) == DeOption(j, DeSessionConfig)
\* serde_json::from_str::<Config>
DeConfig(j) ==
    IF /\ Has(j, {"providers", "profiles", "active_profile"})
       /\ IsSome(DeSeq(j.v.providers, DeProvider))
       /\ IsSome(DeSeq(j.v.profiles, DeRoutingProfile))
       /\ IsSome(DeString(j.v.active_profile))
       /\ IsSome(DeDefault(j, "scorer", DeOptScorer, None))
       /\ IsSome(DeDefault(j, "cache", DeOptCache, None))
       /\ IsSome(DeDefault(j, "agentic_mode", DeBool, FALSE))
       /\ IsSome(DeDefault(j, "session", DeOptSession, None))
    THEN Some([providers |-> Unwrap(DeSeq(j.v.providers, DeProvider)),
               profiles |-> Unwrap(DeSeq(j.v.profiles, DeRoutingProfile)),
               active_profile |-> j.v.active_profile.v,
               scorer |-> Unwrap(DeDefault(j, "scorer", DeOptScorer, None)),
               cache |-> Unwrap(DeDefault(j, "cache", DeOptCache, None)),
               agentic_mode |-> Unwrap(DeDefault(j, "agentic_mode", DeBool, FALSE)),
               session |-> Unwrap(DeDefault(j, "session", DeOptSession, None))])
    ELSE None

\* Config::default(): three providers and the profiles auto, eco and
\* premium; the costs in hundredths
DefaultMapping(simple, medium, complex, reasoning) ==
    [k \in {"simple", "medium", "complex", "reasoning"} |->
        ModelMapping(CASE k = "simple" -> simple [] k = "medium" -> medium
                       [] k = "complex" -> complex [] OTHER -> reasoning, "")]
DefaultAgenticMapping ==
    DefaultMapping("claude-haiku-4.5", "moonshot/kimi-k2.5", "claude-sonnet-4.6",
                   "moonshot/kimi-k2.5")
Config_default ==
    Config(<<Provider("openai", "OpenAI", "OpenAI", None, "Subscription", TRUE, 1,
                      <<Model("gpt-4-turbo", 1000, 3000)>>),
             Provider("anthropic", "Anthropic", "Anthropic", None, "Subscription", TRUE, 1,
                      <<Model("claude-3-opus", 1500, 7500)>>),
             Provider("deepseek", "DeepSeek", "DeepSeek", None, "Cheap", TRUE, 1,
                      <<Model("deepseek-chat", 14, 28)>>)>>,
           <<RoutingProfile("auto", AllTiers,
                 DefaultMapping("moonshot/kimi-k2.5", "xai/grok-code-fast-1",
                                "google/gemini-3-pro-preview",
                                "xai/grok-4-1-fast-reasoning"),
                 DefaultAgenticMapping),
             RoutingProfile("eco", <<"Free", "Cheap">>,
                 DefaultMapping("nvidia/gpt-oss-120b", "google/gemini-2.5-flash",
                                "google/gemini-2.5-flash", "xai/grok-4-1-fast-reasoning"),
                 DefaultAgenticMapping),
             RoutingProfile("premium", <<"Subscription", "PayPerRequest">>,
                 DefaultMapping("moonshot/kimi-k2.5", "openai/gpt-5.2-codex",
                                "claude-opus-4", "claude-sonnet-4"),
                 DefaultAgenticMapping)>>,
           None, None, None)

\* the file at config_path: absent, a JSON text, or what a write that broke
\* off has left
NoFile == [kind |-> "absent", json |-> JNull]
BrokenFile == [kind |-> "broken", json |-> JNull]
JsonFile(j) == [kind |-> "json", json |-> j]

\* AppState::new: the config of the file, or the default when the file is
\* absent, unreadable or does not parse
AppState_new(file) ==
    IF file.kind = "json" THEN UnwrapOr(DeConfig(file.json), Config_default)
    ELSE Config_default

\* the configs a client posts
ConfigBodies ==
    {Config(<<PGood>>, <<ProfileAuto>>, None, None, None),
     Config(<<PFailing, PGood>>, <<ProfileMapped>>, Some(ScorerConfigDefault),
            Some(CacheConfig(TRUE, 0)), Some(SessionConfig(TRUE, 0))),
     Config(<<PBadKey>>, <<ProfileFree, ProfileUnserved>>, None,
            Some(CacheConfig(FALSE, 3600)), None),
     Config(<<>>, <<>>, None, None, None)}
Posters == {1, 2}
\* a POST /api/config in progress: its body, its answer, and what the live
\* config and the file were when it answered
IdlePost ==
    [pc |-> "idle", c |-> NoConfig, status |-> 0, live |-> NoConfig, file |-> NoFile,
     written |-> FALSE, overlapped |-> FALSE]

\* AppState::update_config up to the end of its block: the live config is
\* replaced under the write lock
PostWrite(p, c) ==
    /\ rt.post[p].pc = "idle"
    /\ config' = c
    /\ rt' = [rt EXCEPT !.post =
                [o \in Posters |->
                    IF o = p THEN [IdlePost EXCEPT !.pc = "save", !.c = c]
                    ELSE IF rt.post[o].pc = "save"
                         THEN [rt.post[o] EXCEPT !.overlapped = TRUE]
                         ELSE rt.post[o]]]
    /\ UNCHANGED <<now, logs, older, oldest, appended, sessions, cache, rq, uuids>>

\* the three ends of fs::write
WriteResults == {"written", "not_opened", "broke_off"}

\* mutant: save serialises the config its caller posted
PostSaveOwnBody(p, result) ==
    /\ rt.post[p].pc = "save"
    /\ LET file == CASE result = "written" -> JsonFile(SerConfig(rt.post[p].c))
                     [] result = "not_opened" -> rt.file
                     [] OTHER -> BrokenFile
       IN rt' = [rt EXCEPT !.file = file,
                           !.post[p].pc = "done",
                           !.post[p].status = IF result = "written" THEN 200 ELSE 500,
                           !.post[p].live = config,
                           !.post[p].written = (result = "written"),
                           !.post[p].file = file]
    /\ UNCHANGED <<config, now, logs, older, oldest, appended, sessions, cache, rq, uuids>>

\* AppState::save under the read lock, and the answer of the handler: 200
\* when the file was written, 500 when it was not
PostSave(p, result) ==
    /\ rt.post[p].pc = "save"
    /\ LET file == CASE result = "written" -> JsonFile(SerConfig(config))
                     [] result = "not_opened" -> rt.file
                     [] OTHER -> BrokenFile
       IN rt' = [rt EXCEPT !.file = file,
                           !.post[p].pc = "done",
                           !.post[p].status = IF result = "written" THEN 200 ELSE 500,
                           !.post[p].live = config,
                           !.post[p].written = (result = "written"),
                           !.post[p].file = file]
    /\ UNCHANGED <<config, now, logs, older, oldest, appended, sessions, cache, rq, uuids>>

\* the client of p posts again
PostAgain(p) ==
    /\ rt.post[p].pc = "done"
    /\ rt.posts < MaxPosts
    /\ rt' = [rt EXCEPT !.post[p] = IdlePost, !.posts = @ + 1]
    /\ UNCHANGED <<config, now, logs, older, oldest, appended, sessions, cache, rq, uuids>>

\* the process ends and boots again from the file
Boot ==
    /\ rt.boots < MaxBoots
    /\ config' = AppState_new(rt.file)
    /\ rt' = [rt EXCEPT !.post = [p \in Posters |-> IdlePost], !.boots = @ + 1]
    /\ UNCHANGED <<now, logs, older, oldest, appended, sessions, cache, rq, uuids>>

InitConfig ==
    /\ now = 0
    /\ logs = <<>>
    /\ older = 0
    /\ oldest = <<>>
    /\ appended = 0
    /\ sessions = [k \in {} |-> NoPin]
    /\ cache = [k \in {} |-> CacheEntry(0, "", TextBody(""))]
    /\ rq = [r \in Reqs |-> IdleReq]
    /\ uuids = 0
    /\ \E file \in {NoFile, BrokenFile} \cup {JsonFile(SerConfig(c)) : c \in ConfigBodies} :
          /\ config = AppState_new(file)
          /\ rt = [file |-> file, post |-> [p \in Posters |-> IdlePost],
                   posts |-> 0, boots |-> 0]

NextConfig ==
    \/ \E p \in Posters, c \in ConfigBodies : PostWrite(p, c)
    \/ \E p \in Posters, result \in WriteResults : PostSave(p, result)
    \/ \E p \in Posters : PostAgain(p)
    \/ Boot

SpecConfig == InitConfig /\ [][NextConfig]_vars

(***************************************************************************)
(* The session table on its own: pins are written, touched and looked up   *)
(* while time passes, and GET /api/stats counts them.  Nothing in the       *)
(* program calls cleanup_sessions.                                         *)
(***************************************************************************)
SessionIds == {"s1", "s2"}

\* AppState::session_count
session_count(table) == Cardinality(DOMAIN table)

\* the entries of the table get_session returns at time t
LiveSessions(table, ttl_seconds, t) ==
    {k \in DOMAIN table : IsSome(get_session(table, k, ttl_seconds, t))}

SessSet(sid) ==
    /\ sessions' = set_session(sessions, sid, "p1", "m1", now)
    /\ rt' = [rt EXCEPT !.phase = "set"]
    /\ UNCHANGED <<config, now, logs, older, oldest, appended, cache, rq, uuids>>

SessTouch(sid) ==
    /\ sessions' = touch_session(sessions, sid, now)
    /\ rt' = [rt EXCEPT !.phase = "touch"]
    /\ UNCHANGED <<config, now, logs, older, oldest, appended, cache, rq, uuids>>

SessTick ==
    /\ now < MaxSessionTime
    /\ now' = now + 1
    /\ rt' = [rt EXCEPT !.phase = "tick"]
    /\ UNCHANGED <<config, logs, older, oldest, appended, sessions, cache, rq, uuids>>

\* get_stats, line 480: active_sessions, next to the number of entries
\* get_session returns at the time of the call
GetStats ==
    /\ rt' = [phase |-> "stats", active_sessions |-> session_count(sessions),
              live |-> Cardinality(LiveSessions(sessions,
                           UnwrapOr(config.session, SessionConfigDefault).ttl_seconds,
                           now))]
    /\ UNCHANGED <<config, now, logs, older, oldest, appended, sessions, cache, rq, uuids>>

InitSessions ==
    /\ config \in {Config(<<PFailing, PGood>>, <<ProfileAuto>>, None, None,
                           Some(SessionConfig(TRUE, ttl))) : ttl \in {0, 1}}
    /\ now = 0
    /\ logs = <<>>
    /\ older = 0
    /\ oldest = <<>>
    /\ appended = 0
    /\ sessions = [k \in {} |-> NoPin]
    /\ cache = [k \in {} |-> CacheEntry(0, "", TextBody(""))]
    /\ rq = [r \in Reqs |-> IdleReq]
    /\ uuids = 0
    /\ rt = [phase |-> "idle", active_sessions |-> 0, live |-> 0]

NextSessions ==
    \/ \E sid \in SessionIds : SessSet(sid)
    \/ \E sid \in SessionIds : SessTouch(sid)
    \/ SessTick
    \/ GetStats

SpecSessions == InitSessions /\ [][NextSessions]_vars

(***************************************************************************)
(* The scorer on its own: one call of Scorer::score on a text of any of    *)
(* the features below, under either configuration.                         *)
(***************************************************************************)
\* texts by their features: short, or longer than the forcing threshold of
\* either configuration; with and without keywords of the lists that move
\* the score or drive an override
ScorerTexts ==
    {[len |-> len,
      kw |-> [NoKeywords EXCEPT !["code"] = code, !["technical"] = code,
                                !["simple"] = simple, !["output_format"] = output_format,
                                !["reasoning"] = reasoning],
      agentic |-> 0, multi_step |-> FALSE, questions |-> 0] :
        len \in {5, 40, 400004}, code \in {0, 1, 3}, simple \in {0, 1},
        output_format \in {0, 1}, reasoning \in {0, 1, 2, 3}}

\* the default configuration, and one with lower boundaries and a forcing
\* threshold of 8 tokens
ScorerConfigs ==
    {ScorerConfigDefault,
     [ScorerConfigDefault EXCEPT
         !.tier_boundaries = [simple_upper |-> 50, medium_upper |-> 100,
                              complex_upper |-> 200],
         !.max_tokens_force_complex = 8]}

ScoreCall ==
    /\ rt.phase = "idle"
    /\ rt' = [rt EXCEPT !.phase = "scored",
                        !.result = ScoreFeatures(rt.features, rt.cfg)]
    /\ UNCHANGED <<config, now, logs, older, oldest, appended, sessions, cache, rq, uuids>>

InitScorer ==
    /\ config \in {Config(<<>>, <<ProfileAuto>>, None, None, None)}
    /\ now = 0
    /\ logs = <<>>
    /\ older = 0
    /\ oldest = <<>>
    /\ appended = 0
    /\ sessions = [k \in {} |-> NoPin]
    /\ cache = [k \in {} |-> CacheEntry(0, "", TextBody(""))]
    /\ rq = [r \in Reqs |-> IdleReq]
    /\ uuids = 0
    /\ \E features \in ScorerTexts, cfg \in ScorerConfigs :
          rt = [phase |-> "idle", features |-> features, cfg |-> cfg,
                result |-> ScoreResult(features, 0, "Simple", FALSE, FALSE, FALSE)]

NextScorer == ScoreCall

SpecScorer == InitScorer /\ [][NextScorer]_vars

(***************************************************************************)
(* The agentic detection on its own: one request runs the pipeline from    *)
(* the cache lookup to the routing, caching disabled.                      *)
(***************************************************************************)
PAgent ==
    Provider("p4", "Agent", "OpenAI", None, "Subscription", TRUE, 0, <<Model("m3", 5, 6)>>)

\* a profile whose mapping sends every tier to m2 and whose agentic mapping
\* sends every tier to m3
ProfileBoth ==
    RoutingProfile("auto", AllTiers,
                   [k \in {"simple", "medium", "complex", "reasoning"} |->
                        ModelMapping("m2", "")],
                   [k \in {"simple", "medium", "complex", "reasoning"} |->
                        ModelMapping("m3", "")])
\* a profile with an agentic mapping only
ProfileAgenticOnly ==
    RoutingProfile("auto", AllTiers, EmptyMap,
                   [k \in {"simple", "reasoning"} |-> ModelMapping("m3", "")])

AgenticConfigs ==
    {[Config(<<PGood, PAgent>>, <<profile>>, scorer, None, None)
         EXCEPT !.agentic_mode = agentic_mode] :
        profile \in {ProfileBoth, ProfileMapped, ProfileAgenticOnly},
        scorer \in {None, Some(ScorerConfigDefault),
                    Some([ScorerConfigDefault EXCEPT !.enabled = FALSE])},
        agentic_mode \in BOOLEAN}

\* the tools extra: absent, an empty array, an array of one tool, or no array
AgenticExtras ==
    {NoExtra} \cup
    {[k \in {"tools"} |-> v] :
        v \in {JArray(<<>>), JArray(<<JString("tool")>>), JString("tool")}}

AgenticRequests ==
    {Request("m1", None, <<[role |-> "user", content |-> text]>>, extra) :
        text \in {"hello", "hello, fix it",
                  "prove the theorem by induction, then fix and debug the code"},
        extra \in AgenticExtras}

\* lines 139-197 for the request of rt: cache lookup, scoring, agentic
\* detection, routing
AgenticCall ==
    /\ rt.phase = "idle"
    /\ rt' = [rt EXCEPT
                !.phase = "routed",
                !.q = Pipeline([IdleReq EXCEPT
                                   !.request = rt.request, !.config = config,
                                   !.log_entry = RequestLog_new(1, 0, rt.request.model)],
                               cache, now, TRUE, TRUE).q]
    /\ UNCHANGED <<config, now, logs, older, oldest, appended, sessions, cache, rq, uuids>>

InitAgentic ==
    /\ config \in AgenticConfigs
    /\ now = 0
    /\ logs = <<>>
    /\ older = 0
    /\ oldest = <<>>
    /\ appended = 0
    /\ sessions = [k \in {} |-> NoPin]
    /\ cache = [k \in {} |-> CacheEntry(0, "", TextBody(""))]
    /\ rq = [r \in Reqs |-> IdleReq]
    /\ uuids = 0
    /\ \E request \in AgenticRequests :
          rt = [phase |-> "idle", request |-> request, q |-> IdleReq]

NextAgentic == AgenticCall

SpecAgentic == InitAgentic /\ [][NextAgentic]_vars

(***************************************************************************)
(* Properties.                                                             *)
(***************************************************************************)
Names(ps) == [i \in 1..Len(ps) |-> ps[i].name]
Contacts(ps) == [i \in 1..Len(ps) |-> Contact(ps[i])]
Ended(r) == rq[r].pc \in {"done", "panicked"}

\* the providers the fan-out of a request contacted and what they answered:
\* all of them but the session-pinned one
FanoutContacted(q) == IF q.pin_sent THEN Tail(q.contacted) ELSE q.contacted
FanoutAnswered(q) ==
    IF q.pin_sent /\ q.answered # <<>> THEN Tail(q.answered) ELSE q.answered
\* the entries of the ring that request r appended
LogsOf(r) == {i \in 1..Len(logs) : logs[i].id = rq[r].log_entry.id}
Status(q) == Unwrap(q.response).status
SameRequest(r1, r2) ==
    /\ rq[r1].request = rq[r2].request
    /\ rq[r1].config = rq[r2].config

\* C1: in the fan-out the candidates are contacted one at a time in the
\* order the router returned them; a candidate that fails causes the next
\* one to be tried; contacting stops at the first 2xx; the response is that
\* candidate's, the log's provider is that candidate, and providers_tried is
\* the prefix of the candidate list that ends with it.
C1_FanoutInRouterOrder ==
    \A r \in Reqs :
        LET q == rq[r]
            sent == FanoutContacted(q)
            got == FanoutAnswered(q)
            k == Len(sent)
        IN /\ k <= Len(q.candidates)
           /\ sent = Contacts(SubSeq(q.candidates, 1, k))
           \* one at a time: at most the last one sent has not answered
           /\ Len(got) \in {k, k - 1} \cap Nat
           /\ (q.pc = "fanout_forward") = (q.routed /\ Len(got) = k - 1)
           \* only the last answer may be a 2xx
           /\ \A i \in 1..(Len(got) - 1) : got[i] = "failed"
           \* a failure moves the loop to the next candidate
           /\ \A i \in 1..Len(got) :
                 got[i] = "failed" /\ i < Len(q.candidates) => q.idx > i
           \* the first 2xx ends the request with that candidate's answer
           /\ (k > 0 /\ Len(got) = k /\ got[k] = "ok") =>
                 /\ q.pc \in {"set_session", "add_log", "done"}
                 /\ q.reply = Some(Reply(200, Body(q.candidates[k], q.effective_model, r)))
                 /\ q.log_entry.provider = Some(q.candidates[k].name)
                 /\ q.log_entry.providers_tried = Names(SubSeq(q.candidates, 1, k))
                 /\ q.pc = "done" =>
                       /\ q.response = q.reply
                       /\ \A i \in LogsOf(r) : logs[i] = q.log_entry
                       /\ LogsOf(r) # {}

\* C1 witness: a request whose first candidate failed and whose second
\* answered 2xx has ended
C1_Witness ==
    \E r \in Reqs :
        /\ rq[r].pc = "done"
        /\ ~rq[r].pin_sent
        /\ rq[r].answered = <<"failed", "ok">>
        /\ rq[r].log_entry.providers_tried = <<"Failing", "Good">>

\* C2 as stated: an empty candidate list ends the request with 400 and one
\* no_provider entry, and no upstream provider is contacted for the request.
C2_AsStated ==
    \A r \in Reqs :
        (rq[r].pc = "done" /\ rq[r].routed /\ rq[r].candidates = <<>>) =>
            /\ rq[r].response = Some(Reply(400, TextBody("No provider found for model")))
            /\ rq[r].logged = 1
            /\ \E i \in 1..Len(logs) : LogsOf(r) = {i} /\ logs[i].status = "no_provider"
            /\ rq[r].contacted = <<>>

\* C2: an empty candidate list ends the request with 400 "No provider found
\* for model" and exactly one no_provider entry; the fan-out contacts no
\* provider and providers_tried is empty. The only provider the request may
\* have contacted is a session-pinned one, before routing, and it failed.
C2_NoProviderButPinned ==
    \A r \in Reqs :
        LET q == rq[r]
        IN (q.routed /\ q.candidates = <<>>) =>
            /\ q.pc \in {"add_log", "done"}
            /\ q.reply = Some(Reply(400, TextBody("No provider found for model")))
            /\ q.log_entry.status = "no_provider"
            /\ q.log_entry.error_message = Some("No provider found for model")
            /\ q.log_entry.providers_tried = <<>>
            /\ FanoutContacted(q) = <<>>
            /\ q.contacted # <<>> =>
                  /\ q.pin_sent
                  /\ q.contacted = <<Contact(q.provider)>>
                  /\ q.answered = <<"failed">>
            /\ q.pc = "done" =>
                  /\ q.response = q.reply
                  /\ q.logged = 1
                  /\ \E i \in 1..Len(logs) : LogsOf(r) = {i} /\ logs[i] = q.log_entry

\* C2 witness: a request that no session pin preceded was answered 400
C2_Witness ==
    \E r \in Reqs :
        /\ rq[r].pc = "done"
        /\ rq[r].routed
        /\ rq[r].candidates = <<>>
        /\ rq[r].contacted = <<>>
        /\ Status(rq[r]) = 400

\* C3: when the candidate list is non-empty and every candidate answered
\* non-2xx or failed at transport, the request ends with 503 "All providers
\* failed", exactly one entry with status "error" and that message is
\* appended, and providers_tried is the whole candidate list in router order.
C3_AllProvidersFailed ==
    \A r \in Reqs :
        LET q == rq[r]
            got == FanoutAnswered(q)
        IN (/\ q.routed
            /\ q.candidates # <<>>
            /\ Len(got) = Len(q.candidates)
            /\ \A i \in 1..Len(got) : got[i] = "failed") =>
            /\ q.pc \in {"add_log", "done"}
            /\ q.reply = Some(Reply(503, TextBody("All providers failed")))
            /\ q.log_entry.status = "error"
            /\ q.log_entry.error_message = Some("All providers failed")
            /\ q.log_entry.providers_tried = Names(q.candidates)
            /\ q.pc = "done" =>
                  /\ q.response = q.reply
                  /\ q.logged = 1
                  /\ \E i \in 1..Len(logs) : LogsOf(r) = {i} /\ logs[i] = q.log_entry

\* C3 witness: a request with two candidates, both failed, was answered 503
C3_Witness ==
    \E r \in Reqs :
        /\ rq[r].pc = "done"
        /\ Len(rq[r].candidates) = 2
        /\ FanoutAnswered(rq[r]) = <<"failed", "failed">>
        /\ Status(rq[r]) = 503

Min(a, b) == IF a < b THEN a ELSE b
\* the requests that were answered 200
Succeeded == {r \in Reqs : rq[r].pc = "done" /\ Status(rq[r]) = 200}

\* C4 as stated: every request answered successfully has exactly one entry
\* in the ring, with status "success" and duration_ms >= 0, and N sequential
\* successful requests leave N entries with pairwise distinct ids: the ring
\* holds as many entries as were appended.
C4_AsStated ==
    /\ \A r \in Succeeded :
          /\ rq[r].logged = 1
          /\ \E i \in 1..Len(logs) :
                LogsOf(r) = {i} /\ logs[i].status = "success" /\ logs[i].duration_ms >= 0
    /\ \A i, j \in 1..Len(logs) : logs[i].id = logs[j].id => i = j
    /\ Succeeded = Reqs => older + Len(logs) = appended

\* C4: every request answered successfully appends exactly one entry, with
\* status "success" and duration_ms >= 0; the entries of N requests have
\* pairwise distinct ids; the ring holds the most recent MAX_LOGS of all the
\* entries appended, so N requests leave N entries only while the ring has
\* room for them.
C4_OneSuccessEntryInBoundedRing ==
    /\ \A r \in Succeeded :
          /\ rq[r].logged = 1
          /\ rq[r].log_entry.status = "success"
          /\ rq[r].log_entry.duration_ms >= 0
          /\ \A i \in LogsOf(r) : logs[i] = rq[r].log_entry
          /\ Cardinality(LogsOf(r)) <= 1
          /\ appended <= MAX_LOGS => Cardinality(LogsOf(r)) = 1
    /\ \A i, j \in 1..Len(logs) : logs[i].id = logs[j].id => i = j
    /\ older + Len(logs) = Min(appended, MAX_LOGS)
    /\ Len(logs) = Min(Cardinality({r \in Reqs : rq[r].logged = 1}), MAX_LOGS)
    /\ \A r \in Reqs : rq[r].logged <= 1

\* C4 witness: two requests were answered successfully one after the other
\* and the ring, full before the second, holds MAX_LOGS entries
C4_Witness ==
    \E r1, r2 \in Succeeded :
        /\ r1 \in rq[r2].after
        /\ appended = MAX_LOGS + 1
        /\ older + Len(logs) = MAX_LOGS
        /\ LogsOf(r1) # LogsOf(r2)

\* C5 as stated: providers_tried of the entry of a request holds, in order,
\* exactly the providers contacted upstream for the request.
C5_AsStated ==
    \A r \in Reqs :
        rq[r].pc = "done" =>
            \A i \in LogsOf(r) :
                logs[i].providers_tried =
                    [j \in 1..Len(rq[r].contacted) |-> rq[r].contacted[j].name]

\* C5: providers_tried of the entry of a request holds, in order, exactly
\* the providers the fan-out contacted for the request; a session-pinned
\* provider that was contacted is not listed; the field is empty for cache
\* hits and for session-pinned direct hits.
C5_ProvidersTriedIsFanout ==
    \A r \in Reqs :
        LET q == rq[r]
            sent == FanoutContacted(q)
        IN (q.pc \in {"fanout_forward", "set_session", "add_log", "done"}) =>
            /\ q.log_entry.providers_tried = [j \in 1..Len(sent) |-> sent[j].name]
            /\ q.pc = "done" => \A i \in LogsOf(r) : logs[i] = q.log_entry
            /\ q.pc = "done" => LogsOf(r) # {}
            /\ q.log_entry.cache_status \in {Some("hit"), Some("skip")} =>
                  q.log_entry.providers_tried = <<>>

\* C5 witness: a request whose pinned provider failed and whose fan-out
\* contacted two providers has ended with the two in providers_tried
C5_Witness ==
    \E r \in Reqs :
        /\ rq[r].pc = "done"
        /\ rq[r].pin_failed
        /\ Len(rq[r].contacted) = 3
        /\ rq[r].log_entry.providers_tried = <<"Failing", "Good">>

\* the second of two identical requests handled one after the other with
\* caching enabled, the first answered by the fan-out, the second arriving
\* within the time to live of the entry
CachedPair(r1, r2) ==
    /\ rq[r2].pc = "done"
    /\ r1 \in rq[r2].after
    /\ SameRequest(r1, r2)
    /\ UnwrapOr(rq[r1].config.cache, CacheConfigDefault).enabled
    /\ rq[r1].pc = "done"
    /\ Status(rq[r1]) = 200
    /\ rq[r1].log_entry.cache_status = Some("miss")
    /\ rq[r2].start - Unwrap(rq[r1].put_at)
          <= UnwrapOr(rq[r1].config.cache, CacheConfigDefault).ttl_seconds * TicksPerSec

CacheHit(r1, r2) ==
    /\ rq[r2].response = rq[r1].response
    /\ rq[r2].log_entry.cache_status = Some("hit")
    /\ \E i \in 1..Len(logs) : LogsOf(r2) = {i} /\ logs[i].cache_status = Some("hit")
    /\ rq[r2].contacted = <<>>

C7_PinHonouredOnlyWithinTtl ==
    \A r \in Reqs :
        IsSome(rq[r].pin_age) =>
            Unwrap(rq[r].pin_age)
                <= UnwrapOr(rq[r].config.session, SessionConfigDefault).ttl_seconds
                      * TicksPerSec

\* C7 witness: a request was forwarded to the provider of a pin older than
\* the time to live
C7_Witness ==
    \E r \in Reqs :
        /\ rq[r].pin_sent
        /\ IsSome(rq[r].pin_age)
        /\ Unwrap(rq[r].pin_age)
              > UnwrapOr(rq[r].config.session, SessionConfigDefault).ttl_seconds
                    * TicksPerSec

\* C8: when a live session entry names a provider enabled in the request's
\* config and the forward to it answers 2xx, the request is answered by that
\* provider with the pinned model id, without cache lookup, cache write,
\* scoring or routing; the session's last_active is refreshed; the entry has
\* session_pinned = true and cache_status "skip".
C8_PinnedSuccess ==
    \A r \in Reqs :
        LET q == rq[r]
            sid == Unwrap(q.session_id)
        IN (q.pin_sent /\ q.answered # <<>> /\ q.answered[1] = "ok") =>
            /\ UnwrapOr(q.config.session, SessionConfigDefault).enabled
            /\ q.pc \in {"add_log", "done"}
            /\ FindPinnedProvider(q.config, q.pinned.provider_id) = Some(q.provider)
            /\ q.provider.enabled
            /\ q.contacted = <<Contact(q.provider)>>
            /\ q.reply = Some(Reply(200, Body(q.provider, q.pinned.model_id, r)))
            /\ ~q.cache_looked /\ ~q.cache_wrote /\ q.put_at = None
            /\ ~q.scored /\ ~q.routed
            /\ q.log_entry.complexity_tier = None
            /\ IsSome(q.touched_at)
            /\ sid \in DOMAIN sessions
            /\ sessions[sid].last_active >= Unwrap(q.touched_at)
            /\ q.log_entry.session_pinned = Some(TRUE)
            /\ q.log_entry.cache_status = Some("skip")
            /\ q.log_entry.provider = Some(q.provider.name)
            /\ q.log_entry.effective_model = Some(q.pinned.model_id)
            /\ q.pc = "done" =>
                  /\ q.response = q.reply
                  /\ \E i \in 1..Len(logs) : LogsOf(r) = {i} /\ logs[i] = q.log_entry

\* C8 witness: a request was answered by the provider of a pin that was set
\* a tick earlier
C8_Witness ==
    \E r \in Reqs :
        /\ rq[r].pc = "done"
        /\ rq[r].pin_sent
        /\ rq[r].answered = <<"ok">>
        /\ rq[r].log_entry.cache_status = Some("skip")
        /\ rq[r].pin_age = Some(1)

\* C9: when the forward to a session-pinned provider fails, the request
\* continues through the normal pipeline and ends with the outcome of that
\* pipeline (cache hit, fan-out success, 400 or 503), with exactly one log
\* entry appended.
C9_PinnedFailureFallsThrough ==
    \A r \in Reqs :
        (rq[r].pin_failed /\ Ended(r)) =>
            /\ rq[r].pc = "done"
            /\ Status(rq[r]) \in {200, 400, 503}
            /\ rq[r].logged = 1
            /\ Cardinality(LogsOf(r)) = 1

\* C9 witness: a request whose pinned provider failed has ended without a
\* response and without a log entry
C9_Witness ==
    \E r \in Reqs :
        /\ rq[r].pin_failed
        /\ rq[r].pc = "panicked"
        /\ rq[r].response = None
        /\ rq[r].logged = 0
        /\ LogsOf(r) = {}

\* C10: for every config, requested model, complexity tier, profile override
\* and agentic flag, the list route_request_with_profile returns holds no
\* provider whose enabled flag is false.
C10_NoDisabledProviderReturned ==
    rt.phase = "returned" =>
        \A i \in 1..Len(rt.result) : rt.result[i].enabled

\* C10 witness: the router returned a non-empty list for a config in which a
\* disabled provider serves the requested model in an allowed tier
C10_Witness ==
    /\ rt.phase = "returned"
    /\ rt.result # <<>>
    /\ rt.complexity = None
    /\ config.profiles = <<ProfileAuto>>
    /\ \E i \in 1..Len(config.providers) :
          /\ ~config.providers[i].enabled
          /\ ServesModel(config.providers[i], rt.model_id)

\* what the call recorded in rt computed on its way: the profile, the
\* mapping, the effective model and tiers, the result of the first filter
RtProfile == RouteProfile(config, rt.profile_override)
RtMapping == MappingSource(RtProfile, rt.use_agentic)
RtEffectiveModel == EffectiveModelId(RtMapping, rt.model_id, rt.complexity)
RtEffectiveTiers == EffectiveTiers(RtProfile, rt.complexity)
RtMappedProvider == MappedProviderId(RtMapping, rt.complexity)
RtFirst ==
    FilterIdx(config.providers,
              {i \in 1..Len(config.providers) :
                  CandidateFilter(config.providers[i], RtEffectiveModel,
                                  RtMappedProvider, RtEffectiveTiers)}, 1)
RtFellBack == RtFirst = <<>> /\ RtEffectiveModel # rt.model_id

\* C11 as stated: every provider route_request_with_profile returns has a
\* model whose id equals the effective model id (the mapped id when the
\* mapping names one, the requested id otherwise).
C11_AsStated ==
    rt.phase = "returned" =>
        \A i \in 1..Len(rt.result) : ServesModel(rt.result[i], RtEffectiveModel)

\* C11 amended: every provider route_request_with_profile returns has a
\* model whose id equals the effective model id, except when no provider
\* passed the filter for a mapped id that differs from the requested one:
\* then every provider returned has a model whose id equals the requested id.
C11_ServesEffectiveOrRequestedModel ==
    rt.phase = "returned" =>
        \A i \in 1..Len(rt.result) :
            ServesModel(rt.result[i],
                        IF RtFellBack THEN rt.model_id ELSE RtEffectiveModel)

\* C11 witness: the mapping changed the model, no provider serves the mapped
\* model, and the list returned is not empty
C11_Witness ==
    /\ rt.phase = "returned"
    /\ RtEffectiveModel # rt.model_id
    /\ RtFellBack
    /\ rt.result # <<>>
    /\ \E i \in 1..Len(config.providers) :
          ~ServesModel(config.providers[i], rt.model_id)

\* the model the candidates of the call were selected for
RtSelectedModel == IF RtFellBack THEN rt.model_id ELSE RtEffectiveModel

\* C12: the list returned is ordered by tier position in the effective tiers
\* ascending, then by the input cost of the provider's model the candidates
\* were selected for (the mapped model, or the requested model after the
\* fallback) ascending, then by priority descending.
C12_OrderedByTierCostPriority ==
    rt.phase = "returned" =>
        \A i, j \in 1..Len(rt.result) :
            i < j =>
                ~Before(Position(RtEffectiveTiers, rt.result[j].tier),
                        Position(RtEffectiveTiers, rt.result[i].tier),
                        InputCost(rt.result[j], RtSelectedModel),
                        InputCost(rt.result[i], RtSelectedModel),
                        rt.result[j].priority, rt.result[i].priority)

\* C12 witness: after the fallback two providers of one tier are returned,
\* the dearer one for the requested model first
C12_Witness ==
    /\ rt.phase = "returned"
    /\ RtFellBack
    /\ Len(rt.result) = 2
    /\ rt.result[1].tier = rt.result[2].tier
    /\ InputCost(rt.result[2], rt.model_id) < InputCost(rt.result[1], rt.model_id)

\* the provider tiers eligible for a complexity tier
C13_Eligible(c) ==
    CASE c = "Simple" -> {"Free", "Cheap"}
      [] c = "Medium" -> {"Cheap", "Free", "PayPerRequest"}
      [] c = "Complex" -> {"Subscription", "Cheap", "PayPerRequest"}
      [] c = "Reasoning" -> {"Subscription", "PayPerRequest"}

\* the tiers a returned provider may have: the allowed tiers of the profile,
\* narrowed to the eligible ones unless none of them is eligible
C13_ExpectedTiers ==
    LET allowed == Range(RtProfile.allowed_tiers)
    IN IF rt.complexity = None THEN allowed
       ELSE IF allowed \cap C13_Eligible(Unwrap(rt.complexity)) = {} THEN allowed
       ELSE allowed \cap C13_Eligible(Unwrap(rt.complexity))

\* C13: when no mapped provider id applies, every provider returned has a
\* tier among the effective tiers: the allowed tiers of the profile when
\* there is no complexity; otherwise the allowed tiers eligible for the
\* complexity, or all allowed tiers when none is eligible.
C13_TiersWithinEffectiveTiers ==
    (rt.phase = "returned" /\ RtMappedProvider = None) =>
        /\ \A i \in 1..Len(rt.result) : rt.result[i].tier \in C13_ExpectedTiers
        /\ Range(RtEffectiveTiers) = C13_ExpectedTiers
        /\ \A i, j \in 1..Len(RtEffectiveTiers) :
              i < j => Position(RtProfile.allowed_tiers, RtEffectiveTiers[i])
                          < Position(RtProfile.allowed_tiers, RtEffectiveTiers[j])

\* C13 witness: a call with a complexity returned providers while another
\* enabled provider serving the model was left out for its tier
C13_Witness ==
    /\ rt.phase = "returned"
    /\ rt.complexity = Some("Simple")
    /\ RtMappedProvider = None
    /\ rt.result # <<>>
    /\ \E i \in 1..Len(config.providers) :
          /\ config.providers[i].enabled
          /\ ServesModel(config.providers[i], RtEffectiveModel)
          /\ config.providers[i].tier = "Subscription"
          /\ config.providers[i].tier \in Range(RtProfile.allowed_tiers)

\* C13 witness of the empty intersection: a Reasoning call under a profile
\* that allows the Free tier only returned a Free provider
C13_WitnessNoEligibleTier ==
    /\ rt.phase = "returned"
    /\ rt.complexity = Some("Reasoning")
    /\ RtProfile.allowed_tiers = <<"Free">>
    /\ rt.result # <<>>

\* the recognized extras of a request, by key
C14_Recognized(request) ==
    [k \in (DOMAIN request.extra) \cap
            {"temperature", "top_p", "max_tokens", "max_completion_tokens", "tools",
             "tool_choice", "stop", "response_format", "seed"} |-> request.extra[k]]

\* C14: the cache key is a function of the model id, the messages and the
\* values of the nine recognized extras: two requests equal in these get the
\* same key, whatever their other extras and whatever the order in which
\* the extras are iterated.
C14_KeyIsFunctionOfRecognizedFields ==
    (/\ IsSome(rt.keys[1]) /\ IsSome(rt.keys[2])
     /\ rt.requests[1].model = rt.requests[2].model
     /\ rt.requests[1].messages = rt.requests[2].messages
     /\ C14_Recognized(rt.requests[1]) = C14_Recognized(rt.requests[2]))
        => rt.keys[1] = rt.keys[2]

\* C14 witness: two requests with the same model, messages, temperature and
\* seed, with different values of another extra, iterated in different orders
C14_Witness ==
    /\ IsSome(rt.keys[1]) /\ IsSome(rt.keys[2])
    /\ rt.keys[1] = rt.keys[2]
    /\ rt.requests[1].model = rt.requests[2].model
    /\ rt.requests[1].messages = rt.requests[2].messages
    /\ DOMAIN rt.requests[1].extra = {"temperature", "seed", "user"}
    /\ DOMAIN rt.requests[2].extra = {"temperature", "seed", "user"}
    /\ rt.requests[1].extra["user"] # rt.requests[2].extra["user"]
    /\ rt.iters[1] = <<"temperature", "user", "seed">>
    /\ rt.iters[2] = <<"seed", "temperature", "user">>

\* C15: cache::get returns the stored response body exactly when the cache
\* is enabled, the entry exists and parses, and now - cached_at <= ttl_seconds
\* (in unix seconds); in every other case it returns nothing.
C15_GetReturnsLiveEntry ==
    rt.op = "get" =>
        rt.body = IF /\ CacheCfg.enabled
                     /\ rt.key \in DOMAIN rt.before
                     /\ rt.ok
                     /\ (rt.t \div TicksPerSec) - rt.before[rt.key].cached_at
                            <= CacheCfg.ttl_seconds
                  THEN Some(rt.before[rt.key].response_body)
                  ELSE None

\* C15 witness: a get returned the body of an entry whose age equals the
\* time to live, one second
C15_Witness ==
    /\ rt.op = "get"
    /\ IsSome(rt.body)
    /\ CacheCfg.ttl_seconds = 1
    /\ (rt.t \div TicksPerSec) - rt.before[rt.key].cached_at = 1

\* C15 witness of the other cases: a get on an enabled cache returned nothing
\* for an entry one second older than the time to live
C15_WitnessExpired ==
    /\ rt.op = "get"
    /\ rt.body = None
    /\ CacheCfg.enabled /\ rt.ok
    /\ rt.key \in DOMAIN rt.before
    /\ (rt.t \div TicksPerSec) - rt.before[rt.key].cached_at = CacheCfg.ttl_seconds + 1

\* the get recorded in rt found its entry expired
C16_FoundExpired ==
    /\ rt.op = "get" /\ CacheCfg.enabled /\ rt.ok
    /\ rt.key \in DOMAIN rt.before
    /\ (rt.t \div TicksPerSec) - rt.before[rt.key].cached_at > CacheCfg.ttl_seconds

\* C16: a cache operation removes an entry only if it is a get that finds
\* the entry expired, and then it removes that entry and no other (when the
\* file can be removed); a get never changes an entry, a get of a live
\* entry leaves the cache unchanged, and with the cache disabled neither get
\* nor put changes anything.
C16_OnlyExpiredGetRemoves ==
    rt.op \in {"get", "put"} =>
        /\ (DOMAIN rt.before) \ (DOMAIN rt.after) # {} => C16_FoundExpired
        /\ C16_FoundExpired =>
              rt.after = IF rt.removable
                         THEN [k \in (DOMAIN rt.before) \ {rt.key} |-> rt.before[k]]
                         ELSE rt.before
        /\ (rt.op = "get" /\ ~C16_FoundExpired) => rt.after = rt.before
        /\ ~CacheCfg.enabled => rt.after = rt.before
        /\ cache = rt.after

\* C16 witness: a get removed its expired entry and left the other entry
C16_Witness ==
    /\ C16_FoundExpired
    /\ DOMAIN rt.before = {"k1", "k2"}
    /\ DOMAIN rt.after = {"k1", "k2"} \ {rt.key}
    /\ \E k \in DOMAIN rt.after :
          (rt.t \div TicksPerSec) - rt.before[k].cached_at > CacheCfg.ttl_seconds

\* C16 witness of the disabled cache: a put and a get on a directory that
\* holds an expired entry left it in place
C16_WitnessDisabled ==
    /\ ~CacheCfg.enabled
    /\ rt.op = "get"
    /\ rt.key \in DOMAIN rt.before
    /\ (rt.t \div TicksPerSec) - rt.before[rt.key].cached_at > CacheCfg.ttl_seconds
    /\ cache = rt.before

\* the last MAX_LOGS entries of everything inserted so far, in the order of
\* insertion: the entries present at the start, then the entries pushed
C17_LastInserted ==
    LET n == RingLen(rt.first) + Len(rt.pushed)
        gone == IF n > MAX_LOGS THEN n - MAX_LOGS ELSE 0
        gone_first == Min(gone, Len(rt.first.oldest))
        gone_older == Min(gone - gone_first, rt.first.older)
    IN [oldest |-> SubSeq(rt.first.oldest, 1 + gone_first, Len(rt.first.oldest)),
        older |-> rt.first.older - gone_older,
        logs |-> SubSeq(rt.pushed, 1 + (gone - gone_first - gone_older), Len(rt.pushed))]

\* C17: after any sequence of add_log calls interleaved with get_logs, the
\* ring holds at most MAX_LOGS entries and no reader observes more; on
\* overflow the entries oldest by insertion are removed and the remaining
\* ones keep their order.
C17_RingBoundedOldestEvicted ==
    /\ rt.lock = "free" =>
          /\ RingLen([oldest |-> oldest, older |-> older, logs |-> logs]) <= MAX_LOGS
          /\ [oldest |-> oldest, older |-> older, logs |-> logs] = C17_LastInserted
    /\ IsSome(rt.seen) => RingLen(Unwrap(rt.seen)) <= MAX_LOGS

\* C17 witness: on a full ring three more entries were added; the two
\* oldest entries and one more are gone, and a reader saw a full ring
\* without the oldest entry
C17_Witness ==
    /\ rt.lock = "free"
    /\ rt.first.oldest = OldEntries
    /\ Len(rt.pushed) = 4
    /\ oldest = <<>>
    /\ older = rt.first.older - 1
    /\ logs = rt.pushed
    /\ IsSome(rt.seen)
    /\ RingLen(Unwrap(rt.seen)) = MAX_LOGS
    /\ Unwrap(rt.seen).oldest = <<OldEntries[2]>>

\* the request that owns entry i of the ring
C18_Owner(i) == CHOOSE r \in Reqs : rq[r].log_entry.id = logs[i].id

\* C18: with concurrent requests the entries of the ring are in the order
\* in which the requests completed (reached add_log), whatever the order in
\* which they started.
C18_EntriesInCompletionOrder ==
    \A i, j \in 1..Len(logs) :
        i < j =>
            /\ rq[C18_Owner(i)].pc = "done"
            /\ rq[C18_Owner(j)].pc = "done"
            /\ rq[C18_Owner(i)].completed < rq[C18_Owner(j)].completed

\* C18 witness: the request that started second completed first, and its
\* entry is the first of the two
C18_Witness ==
    /\ Len(logs) = 2
    /\ rq[1].pc = "done" /\ rq[2].pc = "done"
    /\ rq[1].log_entry.id < rq[2].log_entry.id
    /\ rq[1].start <= rq[2].start
    /\ rq[2].completed < rq[1].completed
    /\ logs[1].id = rq[2].log_entry.id
    /\ logs[2].id = rq[1].log_entry.id

C20_EveryRequestAnswered ==
    \A r \in Reqs :
        Ended(r) =>
            /\ rq[r].pc = "done"
            /\ IsSome(rq[r].response)
            /\ Status(rq[r]) \in (200..299) \cup {400, 503}
            /\ LogsOf(r) # {}

\* C20 witness: under a config without profiles a request was aborted by the
\* index into the empty list, without a response and without a log entry
C20_Witness ==
    \E r \in Reqs :
        /\ rq[r].config.profiles = <<>>
        /\ rq[r].pc = "panicked"
        /\ rq[r].response = None
        /\ LogsOf(r) = {}

\* C20 witness of the second abort: the fan-out reached a provider whose
\* api_key is no valid header value
C20_WitnessBadKey ==
    \E r \in Reqs :
        /\ rq[r].pc = "panicked"
        /\ ~rq[r].pin_sent
        /\ rq[r].provider = PBadKey
        /\ rq[r].response = None
        /\ LogsOf(r) = {}

\* C21: to a provider that is not of kind Anthropic the upstream request
\* carries the client's own Authorization header unchanged when the
\* provider's api_key is absent or empty, and "Bearer <api_key>" in place of
\* the client's header when the api_key is set.
C21_AuthorizationForwardedOrReplaced ==
    (rt.phase \in {"sent", "answered"} /\ rt.provider.provider_type # "Anthropic") =>
        IF rt.provider.api_key \in {None, Some("")}
        THEN /\ ("authorization" \in DOMAIN rt.sent) = ("authorization" \in DOMAIN rt.headers)
             /\ "authorization" \in DOMAIN rt.headers =>
                    rt.sent["authorization"] = rt.headers["authorization"]
        ELSE /\ "authorization" \in DOMAIN rt.sent
             /\ rt.sent["authorization"] = "Bearer " \o Unwrap(rt.provider.api_key)

\* C21 witness: a request with the client's Authorization was sent to an
\* OpenAI provider without api_key, and the upstream header is "Bearer "
C21_Witness ==
    /\ rt.phase = "sent"
    /\ rt.provider.provider_type = "OpenAI"
    /\ rt.provider.api_key = None
    /\ "authorization" \in DOMAIN rt.headers
    /\ rt.headers["authorization"] = "Bearer client"
    /\ rt.sent["authorization"] = "Bearer "

\* the text of all system messages, in their order
RECURSIVE C22_SystemText(_, _)
C22_SystemText(messages, i) ==
    IF i > Len(messages) THEN ""
    ELSE (IF messages[i].role = "system" THEN messages[i].content ELSE "")
         \o C22_SystemText(messages, i + 1)

\* the text of the first user message
C22_FirstUserText(messages) ==
    IF \E i \in 1..Len(messages) : messages[i].role = "user"
    THEN messages[CHOOSE i \in 1..Len(messages) :
                     /\ messages[i].role = "user"
                     /\ \A j \in 1..(i - 1) : messages[j].role # "user"].content
    ELSE ""

\* C22: with sessions enabled the session id is the first non-empty of the
\* X-Session-Id header, the conversation_id extra when it is a string, and
\* "fp:" followed by the digest of all system message text plus the first
\* user message text; there is none when none of these yields text. With
\* sessions disabled there is no session id.
C22_SessionIdByPriorityChain ==
    rt.phase = "computed" =>
        rt.session_id =
            IF ~UnwrapOr(config.session, SessionConfigDefault).enabled THEN None
            ELSE IF rt.request.x_session_id \notin {None, Some("")}
            THEN rt.request.x_session_id
            ELSE IF /\ "conversation_id" \in DOMAIN rt.request.extra
                    /\ rt.request.extra["conversation_id"].t = "string"
                    /\ rt.request.extra["conversation_id"].v # ""
            THEN Some(rt.request.extra["conversation_id"].v)
            ELSE IF C22_SystemText(rt.request.messages, 1)
                       \o C22_FirstUserText(rt.request.messages) # ""
            THEN Some("fp:" \o C22_SystemText(rt.request.messages, 1)
                            \o C22_FirstUserText(rt.request.messages))
            ELSE None

\* C22 witness: the fingerprint of a request whose system message follows
\* its first user message was computed from the user message alone
C22_Witness ==
    /\ rt.phase = "computed"
    /\ rt.request.messages = <<Msg("user", "u1"), Msg("system", "s1")>>
    /\ rt.session_id = Some("fp:u1")

\* C22, the disabled half in the handler: a request handled under a config
\* whose sessions are disabled has no session id, never looks a session up
\* and never writes a pin.
C22_DisabledSessionsUntouched ==
    \A r \in Reqs :
        (rq[r].pc # "idle"
         /\ ~UnwrapOr(rq[r].config.session, SessionConfigDefault).enabled) =>
            /\ rq[r].session_id = None
            /\ rq[r].log_entry.session_id = None
            /\ rq[r].pc \notin {"get_session", "touch_session", "set_session"}
            /\ rq[r].pin_age = None
            /\ sessions = [k \in {} |-> NoPin]

\* the model id the request of r carried to the provider that answered it:
\* the pin's model on the pinned forward, effective_model in the fan-out
C23_ModelSent(r) ==
    IF rq[r].pin_sent /\ ~rq[r].pin_failed THEN rq[r].pinned.model_id
    ELSE rq[r].effective_model

\* the requests a provider answered 2xx
C23_Forwarded ==
    {r \in Reqs : rq[r].log_entry.status = "success"
                   /\ rq[r].answered # <<>>
                   /\ rq[r].answered[Len(rq[r].answered)] = "ok"}

\* C23: after a successful forward to P the log entry's estimated_cost is
\* input_tokens * input_cost_per_1m + output_tokens * output_cost_per_1m
\* (in millionths), the costs being those of P's own entry for the model
\* sent, and it is unset when a token count is missing.
C23_CostFromOwnModelEntry ==
    \A r \in C23_Forwarded :
        LET l == rq[r].log_entry
            ms == rq[r].provider.models
            hits == {i \in 1..Len(ms) : ms[i].id = C23_ModelSent(r)}
        IN IF IsSome(l.input_tokens) /\ IsSome(l.output_tokens)
           THEN /\ hits # {}
                /\ \E i \in hits :
                      /\ \A j \in hits : i <= j
                      /\ l.estimated_cost =
                            Some(Unwrap(l.input_tokens) * ms[i].input_cost_per_1m
                                 + Unwrap(l.output_tokens) * ms[i].output_cost_per_1m)
           ELSE l.estimated_cost = None

\* a provider that lists the model sent answered with both counts and the
\* cost was computed from its entry
C23_Witness ==
    \E r \in C23_Forwarded :
        /\ IsSome(rq[r].log_entry.input_tokens)
        /\ IsSome(rq[r].log_entry.output_tokens)
        /\ rq[r].provider.id = "p2"
        /\ C23_ModelSent(r) = "m2"
        /\ rq[r].log_entry.estimated_cost = Some(10 * 3 + 5 * 4)

\* C23, one forward with every shape of the usage object: when the provider
\* lists the model sent the cost is that of its first entry for it and is
\* set exactly when both counts are there; when it does not, no cost is set.
C23_CostWhenListed ==
    (rt.phase = "answered" /\ rt.outcome.kind = "ok") =>
        LET ms == rt.provider.models
            hits == {i \in 1..Len(ms) : ms[i].id = rt.effective_model}
            u == rt.outcome.usage
            both == IsSome(u) /\ IsSome(Unwrap(u).prompt_tokens)
                              /\ IsSome(Unwrap(u).completion_tokens)
        IN IF both /\ hits # {}
           THEN \E i \in hits :
                   /\ \A j \in hits : i <= j
                   /\ rt.log.estimated_cost =
                         Some(Unwrap(Unwrap(u).prompt_tokens) * ms[i].input_cost_per_1m
                              + Unwrap(Unwrap(u).completion_tokens)
                                  * ms[i].output_cost_per_1m)
           ELSE rt.log.estimated_cost = None

\* C24: a POST /api/config with body c that answers 200 leaves the live
\* config and the persisted file equal to c, and a boot from that file loads
\* a Config equal to c; when the file was not written the answer is 500.
C24_PostLeavesLiveAndFileEqual ==
    \A p \in Posters :
        rt.post[p].pc = "done" =>
            /\ rt.post[p].status = 200 =>
                  /\ rt.post[p].live = rt.post[p].c
                  /\ rt.post[p].file = JsonFile(SerConfig(rt.post[p].c))
                  /\ AppState_new(rt.post[p].file) = rt.post[p].c
            /\ ~rt.post[p].written => rt.post[p].status = 500

\* a POST of a config with every optional part set has answered 200
C24_Witness ==
    \E p \in Posters :
        /\ rt.post[p].pc = "done"
        /\ rt.post[p].status = 200
        /\ IsSome(rt.post[p].c.scorer)
        /\ IsSome(rt.post[p].c.session)
        /\ ~rt.post[p].overlapped
        /\ rt.boots = 1

\* C24, for a POST no other POST overlaps: between its replacing the live
\* config and its answer no other POST replaced the live config
C24_UnoverlappedPostLeavesLiveAndFileEqual ==
    \A p \in Posters :
        (rt.post[p].pc = "done" /\ ~rt.post[p].overlapped) =>
            /\ rt.post[p].status = 200 =>
                  /\ rt.post[p].live = rt.post[p].c
                  /\ rt.post[p].file = JsonFile(SerConfig(rt.post[p].c))
                  /\ AppState_new(rt.post[p].file) = rt.post[p].c
            /\ ~rt.post[p].written => rt.post[p].status = 500

\* C24, the round trip: every config a client posts, and the default, loads
\* from its own serialisation as itself, and the file of a running process
\* is always one the boot loads as the live config of the moment it was written
C24_SaveThenLoadIsEqual ==
    /\ \A c \in ConfigBodies \cup {Config_default} :
          DeConfig(SerConfig(c)) = Some(c)
    /\ \A p \in Posters :
          (rt.post[p].pc = "done" /\ rt.post[p].status = 200) =>
              AppState_new(rt.post[p].file) = rt.post[p].live

\* C25: a request whose handler was dropped at one of its awaits has no
\* entry with status "success" in the log ring.
C25_NoSuccessEntryForAbandoned ==
    \A r \in Reqs :
        rq[r].pc = "abandoned" =>
            \A i \in 1..Len(logs) :
                logs[i].id = rq[r].log_entry.id => logs[i].status # "success"

\* a handler was dropped while it waited for the log lock with its entry
\* already marked "success", after the other request had logged
C25_Witness ==
    \E r \in Reqs :
        /\ rq[r].pc = "abandoned"
        /\ rq[r].log_entry.status = "success"
        /\ rq[r].answered # <<>>
        /\ Len(logs) >= 1

\* C25: a handler was dropped during an upstream call, before any answer
C25_WitnessEveryAwait ==
    \E r \in Reqs :
        /\ rq[r].pc = "abandoned"
        /\ rq[r].contacted # <<>>
        /\ rq[r].answered = <<>>

\* C26: the session count GET /api/stats reports is the number of live
\* sessions, the entries get_session returns at the time of the call.
C26_StatsCountsLiveSessions ==
    rt.phase = "stats" => rt.active_sessions = rt.live

\* stats were read while one pin was live and another had expired
C26_Witness ==
    /\ rt.phase = "stats"
    /\ rt.live = 1
    /\ DOMAIN sessions = SessionIds

\* C26, what the code reports: the number of entries ever written, never
\* less than the number of live sessions
C26_StatsCountsAllEntries ==
    rt.phase = "stats" =>
        /\ rt.active_sessions = Cardinality(DOMAIN sessions)
        /\ rt.active_sessions >= rt.live

\* C27: for every input resolve_model_id_with_profile returns the effective
\* model id route_request_with_profile used for the same input, also when
\* the profile name matches no profile and the router uses the first one.
C27_ResolveEqualsRoutedModel ==
    rt.phase = "returned" => rt.resolved = RtEffectiveModel

\* both were called with a profile name that matches no profile, and agree
C27_Witness ==
    /\ rt.phase = "returned"
    /\ FindProfile(config, ProfileName(config, rt.profile_override)) = None
    /\ IsSome(rt.complexity)
    /\ rt.resolved = RtEffectiveModel

\* C27, where the profile name matches a profile: the two agree, and where
\* it matches none resolve_model_id_with_profile returns the requested id
C27_ResolveEqualsRoutedModelOfNamedProfile ==
    rt.phase = "returned" =>
        IF IsSome(FindProfile(config, ProfileName(config, rt.profile_override)))
        THEN rt.resolved = RtEffectiveModel
        ELSE rt.resolved = rt.model_id

\* the enabled providers that serve the requested model in a tier of the
\* effective tiers, whatever provider the mapping names
C28_ByTierOnly ==
    {i \in 1..Len(config.providers) :
        /\ config.providers[i].enabled
        /\ ServesModel(config.providers[i], rt.model_id)
        /\ Contains(RtEffectiveTiers, config.providers[i].tier)}

\* C28: when no enabled provider passes the candidate filter for the mapped
\* model and the mapping changed the model id, the router returns the
\* enabled providers serving the requested model id within the effective
\* tiers, the mapped provider id playing no part; when the mapping did not
\* change the model id the result stays empty.
C28_RetryWithRequestedModel ==
    (rt.phase = "returned" /\ RtFirst = <<>>) =>
        IF RtEffectiveModel # rt.model_id
        THEN /\ Range(rt.result) = {config.providers[i] : i \in C28_ByTierOnly}
             /\ Len(rt.result) = Cardinality(C28_ByTierOnly)
        ELSE rt.result = <<>>

\* the mapping names provider b, which is disabled or does not serve the
\* mapped model, and the retry returned provider a for the requested model
C28_Witness ==
    /\ rt.phase = "returned"
    /\ RtFirst = <<>>
    /\ RtEffectiveModel # rt.model_id
    /\ RtMappedProvider = Some("b")
    /\ Len(rt.result) >= 1
    /\ rt.result[1].id = "a"

\* the mapping names the requested model at a provider that is disabled,
\* another provider serves the model, and the result is empty
C28_WitnessNoRetry ==
    /\ rt.phase = "returned"
    /\ RtFirst = <<>>
    /\ RtEffectiveModel = rt.model_id
    /\ IsSome(RtMappedProvider)
    /\ C28_ByTierOnly # {}
    /\ rt.result = <<>>

\* the enabled providers serving the effective model: those with the id the
\* mapping names, and those in a tier of the effective tiers
C29_Pinned(pid) ==
    {i \in 1..Len(config.providers) :
        /\ config.providers[i].enabled
        /\ ServesModel(config.providers[i], RtEffectiveModel)
        /\ config.providers[i].id = pid}
C29_InTiers ==
    {i \in 1..Len(config.providers) :
        /\ config.providers[i].enabled
        /\ ServesModel(config.providers[i], RtEffectiveModel)
        /\ Contains(RtEffectiveTiers, config.providers[i].tier)}

\* C29 as stated: when the mapping entry of the supplied complexity names a
\* provider id, every returned provider that serves the mapped model has
\* that id, and the enabled provider of that id serving the mapped model is
\* returned whatever its tier; when it names none, every enabled provider
\* serving the model within the effective tiers is returned.
C29_AsStated ==
    rt.phase = "returned" =>
        IF IsSome(RtMappedProvider)
        THEN /\ \A i \in 1..Len(rt.result) :
                    ServesModel(rt.result[i], RtEffectiveModel) =>
                        rt.result[i].id = Unwrap(RtMappedProvider)
             /\ \A i \in C29_Pinned(Unwrap(RtMappedProvider)) :
                    Contains(rt.result, config.providers[i])
        ELSE \A i \in C29_InTiers : Contains(rt.result, config.providers[i])

\* C29 amended: when the mapping entry of the supplied complexity names a
\* provider id and the router did not fall back to the requested model, the
\* providers returned are exactly the enabled providers of that id serving
\* the mapped model, whatever their tier; after the fallback the providers
\* returned may have any id and may serve the mapped model too.  When the
\* entry names no provider, and without fallback, the providers returned are
\* exactly the enabled providers serving the model within the effective
\* tiers.
C29_PinnedUnlessFallback ==
    (rt.phase = "returned" /\ ~RtFellBack) =>
        IF IsSome(RtMappedProvider)
        THEN /\ Range(rt.result) =
                    {config.providers[i] : i \in C29_Pinned(Unwrap(RtMappedProvider))}
             /\ Len(rt.result) = Cardinality(C29_Pinned(Unwrap(RtMappedProvider)))
        ELSE /\ Range(rt.result) = {config.providers[i] : i \in C29_InTiers}
             /\ Len(rt.result) = Cardinality(C29_InTiers)

\* the provider the mapping names was returned although its tier is not one
\* of the effective tiers, and the other provider serves the mapped model too
C29_Witness ==
    /\ rt.phase = "returned"
    /\ RtMappedProvider = Some("b")
    /\ Len(rt.result) = 1
    /\ rt.result[1].id = "b"
    /\ ~Contains(RtEffectiveTiers, rt.result[1].tier)
    /\ \E i \in 1..Len(config.providers) :
          /\ config.providers[i].id = "a"
          /\ config.providers[i].enabled
          /\ ServesModel(config.providers[i], RtEffectiveModel)
          /\ Contains(RtEffectiveTiers, config.providers[i].tier)

\* the tier and the override after each of the three steps, from the
\* classified tier t0
C30_AfterTokens(t0) ==
    IF estimate_token_count(rt.features.len) > rt.cfg.max_tokens_force_complex
         /\ t0 \in {"Simple", "Medium"}
    THEN <<"Complex", Some("token_count_force_complex")>>
    ELSE <<t0, None>>
C30_AfterFormat(s1) ==
    IF score_keyword_match(rt.features.kw["output_format"]) > 0 /\ s1[1] = "Simple"
    THEN <<"Medium", Some("structured_output_min_medium")>>
    ELSE s1
C30_AfterReasoning(s2) ==
    IF score_keyword_match(rt.features.kw["reasoning"]) >= 6
    THEN <<"Reasoning", Some("reasoning_markers_force")>>
    ELSE s2
C30_Classified == classify_tier(rt.result.raw_score, rt.cfg.tier_boundaries)

\* C30: the tier and override_applied of Scorer::score are those of
\* classify_tier(raw_score) followed by the three overrides in order, a later
\* one winning: the token count forces a tier below Complex to Complex, an
\* output format keyword lifts Simple to Medium, reasoning markers of 0.6 or
\* more force Reasoning; override_applied is absent when none fires, and
\* the final tier is never below the classified one.
C30_OverridesInOrder ==
    rt.phase = "scored" =>
        /\ rt.result.raw_score = compute_weighted_score(rt.features, rt.cfg)
        /\ <<rt.result.tier, rt.result.override_applied>> =
              C30_AfterReasoning(C30_AfterFormat(C30_AfterTokens(C30_Classified)))
        /\ TierRank(rt.result.tier) >= TierRank(C30_Classified)
        /\ (/\ C30_AfterTokens(C30_Classified)[2] = None
            /\ ~(score_keyword_match(rt.features.kw["output_format"]) > 0
                   /\ C30_Classified = "Simple")
            /\ score_keyword_match(rt.features.kw["reasoning"]) < 6)
               => rt.result.override_applied = None

\* a long text classified Simple with an output format keyword: the token
\* count forced Complex and the second override found no Simple tier
C30_Witness ==
    /\ rt.phase = "scored"
    /\ C30_Classified = "Simple"
    /\ estimate_token_count(rt.features.len) > rt.cfg.max_tokens_force_complex
    /\ rt.features.kw["output_format"] = 1
    /\ rt.result.tier = "Complex"
    /\ rt.result.override_applied = Some("token_count_force_complex")

\* the third override won over the second
C30_WitnessLaterWins ==
    /\ rt.phase = "scored"
    /\ C30_AfterFormat(C30_AfterTokens(C30_Classified))
          = <<"Medium", Some("structured_output_min_medium")>>
    /\ rt.result.tier = "Reasoning"
    /\ rt.result.override_applied = Some("reasoning_markers_force")

\* no override fired on a text classified Reasoning
C30_WitnessNoOverride ==
    /\ rt.phase = "scored"
    /\ rt.result.override_applied = None
    /\ rt.result.tier = "Reasoning"

\* what C31 expects of the request of rt: the scorer ran, the tier and the
\* agentic keyword count it returned, the agentic flag
C31_ScorerRan == IsSome(config.scorer) => Unwrap(config.scorer).enabled
C31_Features == TextFeatures(rt.request.messages[1].content)
C31_Complexity ==
    IF C31_ScorerRan
    THEN Some(Scorer_score(rt.request.messages,
                           UnwrapOr(config.scorer, ScorerConfigDefault)).tier)
    ELSE None
C31_IsAgentic ==
    \/ /\ "tools" \in DOMAIN rt.request.extra
       /\ rt.request.extra["tools"].t = "array"
       /\ Len(rt.request.extra["tools"].v) > 0
    \/ config.agentic_mode
    \/ (IF C31_ScorerRan THEN C31_Features.agentic ELSE 0) >= 2
C31_Mapping ==
    IF C31_IsAgentic /\ DOMAIN config.profiles[1].agentic_model_mapping # {}
    THEN config.profiles[1].agentic_model_mapping
    ELSE config.profiles[1].model_mapping

\* C31: a request is agentic exactly when its tools extra is a non-empty
\* array, or config.agentic_mode is set, or the scorer counted at least two
\* agentic keywords (none when it did not run); the router reads the
\* agentic mapping of the profile exactly when the request is agentic and
\* that mapping is not empty, the normal mapping otherwise; agentic_mode of
\* the log entry is the flag.
C31_AgenticFlagSelectsMapping ==
    rt.phase = "routed" =>
        /\ rt.q.log_entry.agentic_mode = Some(C31_IsAgentic)
        /\ rt.q.effective_model =
              EffectiveModelId(C31_Mapping, rt.request.model, C31_Complexity)
        /\ rt.q.candidates =
              RouteMapped(config.providers, rt.request.model, C31_Complexity,
                          config.profiles[1], C31_Mapping)

\* two agentic keywords alone made the request agentic and the agentic
\* mapping sent it to m3
C31_Witness ==
    /\ rt.phase = "routed"
    /\ ~config.agentic_mode
    /\ "tools" \notin DOMAIN rt.request.extra
    /\ C31_Features.agentic = 2
    /\ rt.q.log_entry.agentic_mode = Some(TRUE)
    /\ rt.q.effective_model = "m3"
    /\ Len(rt.q.candidates) = 1
    /\ rt.q.candidates[1].id = "p4"

\* an agentic request under a profile whose agentic mapping is empty was
\* routed by the normal mapping
C31_WitnessEmptyAgenticMapping ==
    /\ rt.phase = "routed"
    /\ rt.q.log_entry.agentic_mode = Some(TRUE)
    /\ DOMAIN config.profiles[1].agentic_model_mapping = {}
    /\ rt.q.effective_model = "m2"

\* one agentic keyword, an empty tools array and a disabled scorer do not
\* make a request agentic
C31_WitnessNotAgentic ==
    /\ rt.phase = "routed"
    /\ rt.q.log_entry.agentic_mode = Some(FALSE)
    /\ \/ C31_ScorerRan /\ C31_Features.agentic = 1
       \/ "tools" \in DOMAIN rt.request.extra
       \/ ~C31_ScorerRan /\ C31_Features.agentic = 2

\* C32, the first half: a log entry is created "pending" and no entry of the
\* ring is "pending"; every entry is appended with a terminal status.
C32_NoPendingEntryInRing ==
    /\ \A i \in 1..Len(logs) : logs[i].status \in {"success", "error", "no_provider"}
    /\ \A r \in Reqs :
          rq[r].pc \in {"get_session", "touch_session", "pinned_forward", "fanout_forward"}
              => rq[r].log_entry.status = "pending"

\* C32: no entry of the ring is "pending", and effective_model of a log
\* entry is assigned at most once during the request, also when the pinned
\* forward failed and the request fell through to the normal pipeline.
C32_FieldsAssignedOnce ==
    /\ C32_NoPendingEntryInRing
    /\ \A r \in Reqs : rq[r].model_writes <= 1

\* a request whose pinned forward failed went through the normal pipeline
\* and was logged
C32_Witness ==
    \E r \in Reqs :
        /\ rq[r].pin_failed
        /\ rq[r].routed
        /\ rq[r].pc = "done"
        /\ rq[r].logged = 1

\* the requests whose set_session has run for session id k
C33_Writers(k) == {r \in Reqs : rq[r].set_seq > 0 /\ rq[r].session_id = Some(k)}

\* C33: every session entry holds the provider id and the model id one
\* request wrote together after its fan-out succeeded, those of the request
\* whose set_session ran last for that session id; never the provider of one
\* and the model of another.
C33_PinWrittenByOneRequest ==
    \A k \in DOMAIN sessions :
        \E r \in C33_Writers(k) :
            /\ \A o \in C33_Writers(k) : rq[o].set_seq <= rq[r].set_seq
            /\ rq[r].answered[Len(rq[r].answered)] = "ok"
            /\ rq[r].log_entry.cache_status = Some("miss")
            /\ sessions[k].provider_id = rq[r].provider.id
            /\ sessions[k].model_id = rq[r].effective_model

\* two requests of one session both found no pin, both succeeded in the
\* fan-out at different providers with different models, and both wrote
C33_Witness ==
    \E r, o \in Reqs :
        /\ rq[r].set_seq = 1
        /\ rq[o].set_seq = 2
        /\ rq[r].pin_age = None
        /\ rq[o].pin_age = None
        /\ rq[r].provider.id # rq[o].provider.id
        /\ rq[r].effective_model # rq[o].effective_model
        /\ r \notin rq[o].after
        /\ o \notin rq[r].after

\* C34: with caching enabled and sessions disabled, two concurrent requests
\* with one cache key can both miss, both be forwarded and both write the
\* entry; afterwards the entry holds the body written by the put that ran
\* last, and every request is answered.
C34_BothPut == \A w \in Putters : rt.w[w].pc = "done" /\ rt.w[w].put_seq > 0

C34_LastPut == CHOOSE w \in Putters : \A o \in Putters : rt.w[o].put_seq <= rt.w[w].put_seq

\* as stated: once both requests have written and returned, the file is the
\* entry of the body of the later put
C34_LastPutWins ==
    ("w" \in DOMAIN rt /\ C34_BothPut)
        => /\ rt.exists
           /\ DeEntry(rt.file) = rt.w[C34_LastPut].body

\* every request that has returned has an answer, and a request that has not
\* returned has a step to take
C34_EveryRequestAnswered ==
    "w" \in DOMAIN rt =>
        \A w \in Putters :
            /\ rt.w[w].pc = "done" => IsSome(rt.w[w].response) /\ rt.w[w].status \in {200, 503}
            /\ rt.w[w].pc # "done" => rt.w[w].pc \in {"get", "forward", "create", "write"}

\* what holds: the later put wins when the two fs::write calls do not overlap
C34_LastPutWinsWhenPutsDoNotOverlap ==
    ("w" \in DOMAIN rt /\ C34_BothPut /\ \A w \in Putters : ~rt.w[w].overlapped)
        => /\ rt.exists
           /\ DeEntry(rt.file) = rt.w[C34_LastPut].body

\* both requests missed, were forwarded and wrote, with different bodies
C34_Witness ==
    /\ "w" \in DOMAIN rt
    /\ C34_BothPut
    /\ \A w \in Putters : rt.w[w].missed /\ rt.w[w].status = 200
    /\ rt.w[1].body # rt.w[2].body

\* the file after two overlapping puts is the entry of neither body
C34_WitnessMixed ==
    /\ "w" \in DOMAIN rt
    /\ C34_BothPut
    /\ rt.exists
    /\ DeEntry(rt.file) = None

\* the fan-out forwards of request r made so far: the provider contacted and
\* the model id placed in the body sent to it
C35_FanoutForwards(r) ==
    { <<FanoutContacted(rq[r])[i].id, rq[r].effective_model>> :
         i \in 1..Len(FanoutContacted(rq[r])) }

C35_Serves(config_, provider_id, model_id) ==
    \E i \in 1..Len(config_.providers) :
        /\ config_.providers[i].id = provider_id
        /\ ServesModel(config_.providers[i], model_id)

\* C35: the model id placed in the body of a fan-out forward is the id of a
\* model the provider contacted serves, also after the fallback to the
\* requested model, and so the pair stored as a session pin after a success
\* names a model the pinned provider serves.
C35_ForwardedModelIsServed ==
    /\ \A r \in Reqs :
          \A f \in C35_FanoutForwards(r) : C35_Serves(rq[r].config, f[1], f[2])
    /\ \A sid \in DOMAIN sessions :
          C35_Serves(config, sessions[sid].provider_id, sessions[sid].model_id)

\* what holds: a fan-out forward that did not come from the fallback sends a
\* model the provider serves
C35_ServedUnlessFallback ==
    \A r \in Reqs :
        \A f \in C35_FanoutForwards(r) :
            C35_Serves(rq[r].config, f[1], f[2])
            \/ \A i \in 1..Len(rq[r].config.providers) :
                  ~ServesModel(rq[r].config.providers[i], rq[r].effective_model)

\* a pin stored after the fallback: the provider serves the requested model
\* and not the one of the pin
C35_Witness ==
    \E sid \in DOMAIN sessions :
        /\ sessions[sid].model_id = "m3"
        /\ ~C35_Serves(config, sessions[sid].provider_id, "m3")
        /\ C35_Serves(config, sessions[sid].provider_id, "m1")

\* the fan-out of the request obtained a 2xx answer
FanoutOk(q) ==
    /\ FanoutContacted(q) # <<>>
    /\ q.answered[Len(q.answered)] = "ok"
    /\ ~(q.pin_sent /\ ~q.pin_failed)

\* the requests that ended in a cache hit, a pinned success, 400 or 503
C36_EndedOtherwise(q) ==
    \/ q.log_entry.cache_status = Some("hit")
    \/ q.pin_sent /\ ~q.pin_failed /\ q.log_entry.status = "success"
    \/ q.log_entry.status \in {"no_provider", "error"}

\* a request that wrote had a 2xx from its fan-out; one that ended otherwise
\* has written neither a cache entry nor a session entry
C36_WritersHadFanoutSuccess ==
    \A r \in Reqs :
        /\ (rq[r].cache_wrote \/ rq[r].set_seq > 0) => FanoutOk(rq[r])
        /\ C36_EndedOtherwise(rq[r]) =>
              ~FanoutOk(rq[r]) /\ ~rq[r].cache_wrote /\ rq[r].set_seq = 0

\* a step that writes a cache entry, sets the pair of a session entry or
\* touches: who takes it, and what a touch changes
C36_Step ==
    /\ \A k \in DOMAIN cache' :
          (k \notin DOMAIN cache \/ cache'[k] # cache[k]) =>
              \E r \in Reqs : /\ rq[r].pc = "fanout_forward"
                              /\ rq'[r].cache_wrote
                              /\ FanoutOk(rq'[r])
    /\ \A sid \in DOMAIN sessions' :
          (\/ sid \notin DOMAIN sessions
           \/ sessions'[sid].provider_id # sessions[sid].provider_id
           \/ sessions'[sid].model_id # sessions[sid].model_id) =>
              \E r \in Reqs : /\ rq[r].pc = "set_session"
                              /\ rq'[r].pc # "set_session"
                              /\ rq[r].session_id = Some(sid)
                              /\ FanoutOk(rq[r])
    /\ \A r \in Reqs :
          (rq[r].pc = "touch_session" /\ rq'[r].pc # "touch_session") =>
              /\ DOMAIN sessions' = DOMAIN sessions
              /\ \A sid \in DOMAIN sessions :
                    \/ sessions'[sid] = sessions[sid]
                    \/ /\ rq[r].session_id = Some(sid)
                       /\ sessions'[sid] = [sessions[sid] EXCEPT !.last_active = now]

\* C36: a cache entry is written and the provider_id/model_id of a session
\* entry are set only by a request whose fan-out obtained a 2xx; requests
\* that end in a cache hit, a pinned success, 400 or 503 write neither, a
\* pinned request only refreshes last_active of its own entry, and a touch
\* creates no entry.
C36_OnlyFanoutSuccessWrites == [](C36_WritersHadFanoutSuccess) /\ [][C36_Step]_vars

\* one request has written the cache or a session after its fan-out, and
\* another has ended in a pinned success after touching its entry
C36_Witness ==
    \E r, o \in Reqs :
        /\ rq[r].cache_wrote \/ rq[r].set_seq > 0
        /\ rq[r].pc = "done"
        /\ rq[o].pc = "done"
        /\ rq[o].pin_sent /\ ~rq[o].pin_failed
        /\ IsSome(rq[o].touched_at)

\* requests have ended in a cache hit, in 400 and in 503
C36_WitnessHit == \E r \in Reqs : rq[r].pc = "done" /\ rq[r].log_entry.cache_status = Some("hit")

C36_WitnessNoProvider ==
    \E r \in Reqs : rq[r].pc = "done" /\ rq[r].log_entry.status = "no_provider"

C36_WitnessError == \E r \in Reqs : rq[r].pc = "done" /\ rq[r].log_entry.status = "error"

\* no other request runs beside request r: each has ended before r arrived
\* or has not arrived
C37_Alone(r) == \A o \in Reqs \ {r} : rq[o].pc = "idle" \/ o \in rq[r].after

\* the provider of the fan-out that answered request q
C37_Answering(q) == q.contacted[Len(q.contacted)].id

\* a request whose pinned forward failed and that ran alone has ended: after
\* a 2xx of its fan-out the entry is (P, M), otherwise it is the old pair
\* with last_active from the touch
C37_EntryAfterFailedPin ==
    \A r \in Reqs :
        (rq[r].pin_failed /\ rq[r].pc = "done" /\ C37_Alone(r)) =>
            LET q == rq[r]
                entry == sessions[Unwrap(q.session_id)]
            IN IF FanoutOk(q)
               THEN /\ entry.provider_id = C37_Answering(q)
                    /\ entry.model_id = q.effective_model
               ELSE /\ C36_EndedOtherwise(q)
                    /\ entry = SessionEntry(q.pinned.provider_id, q.pinned.model_id,
                                            Unwrap(q.touched_at))

\* the steps of a request whose pinned forward has failed: set_session
\* stores (P, M), every other step leaves the session table as it is
C37_Step ==
    \A r \in Reqs :
        (rq'[r] # rq[r] /\ rq'[r].pin_failed) =>
            IF rq[r].pc = "set_session"
            THEN /\ FanoutOk(rq[r])
                 /\ sessions'[Unwrap(rq[r].session_id)] =
                        SessionEntry(C37_Answering(rq[r]), rq[r].effective_model, now)
            ELSE sessions' = sessions

\* C37: when a session-pinned forward fails and the fan-out of the same
\* request succeeds with provider P and effective model M, the session entry
\* afterwards is (P, M) in place of the failed pin; when the pipeline ends in
\* a cache hit, 400 or 503, the entry keeps its provider and model, with
\* last_active refreshed by the touch made before the failed forward.
C37_FailedPinIsReplacedOnSuccess == [](C37_EntryAfterFailedPin) /\ [][C37_Step]_vars

\* the fan-out after a failed pin succeeded and the pin was replaced by
\* another pair
C37_Witness ==
    \E r \in Reqs :
        /\ rq[r].pin_failed /\ rq[r].pc = "done" /\ C37_Alone(r)
        /\ FanoutOk(rq[r])
        /\ <<rq[r].pinned.provider_id, rq[r].pinned.model_id>>
              # <<C37_Answering(rq[r]), rq[r].effective_model>>
        /\ sessions[Unwrap(rq[r].session_id)].provider_id = C37_Answering(rq[r])

\* after a failed pin the pipeline ended in a cache hit, in 400 and in 503,
\* the touch having been made at a later time than the pin was stored
C37_WitnessKept ==
    \E r \in Reqs :
        /\ rq[r].pin_failed /\ rq[r].pc = "done" /\ C37_Alone(r)
        /\ ~FanoutOk(rq[r])
        /\ Unwrap(rq[r].touched_at) > rq[r].pinned.last_active

C37_WitnessHit ==
    \E r \in Reqs : /\ rq[r].pin_failed /\ rq[r].pc = "done"
                    /\ rq[r].log_entry.cache_status = Some("hit")

C37_WitnessNoProvider ==
    \E r \in Reqs : /\ rq[r].pin_failed /\ rq[r].pc = "done"
                    /\ rq[r].log_entry.status = "no_provider"

C37_WitnessError ==
    \E r \in Reqs : /\ rq[r].pin_failed /\ rq[r].pc = "done"
                    /\ rq[r].log_entry.status = "error"

\* provider_id names a provider that is enabled in the config cfg
C38_EnabledIn(cfg, provider_id) ==
    \E i \in 1..Len(cfg.providers) :
        cfg.providers[i].id = provider_id /\ cfg.providers[i].enabled

\* the decisions request q has taken so far are those its snapshot gives
C38_FromSnapshot(q) ==
    LET snap == q.config
        complexity == q.log_entry.complexity_tier
        profile_override == parse_router_model(q.request.model)
    IN /\ q.session_id = IF UnwrapOr(snap.session, SessionConfigDefault).enabled
                         THEN extract_session_id(q.request) ELSE None
       /\ (q.cache_wrote \/ q.log_entry.cache_status = Some("hit"))
             => UnwrapOr(snap.cache, CacheConfigDefault).enabled
       /\ q.scored = (q.routed /\ UnwrapOr(snap.scorer, ScorerConfigDefault).enabled)
       /\ q.scored =>
             complexity = Some(Scorer_score(q.request.messages,
                                            UnwrapOr(snap.scorer, ScorerConfigDefault)).tier)
       /\ q.routed =>
             /\ q.candidates =
                   route_request_with_profile(snap, q.request.model, complexity,
                                              profile_override,
                                              Unwrap(q.log_entry.agentic_mode))
             /\ q.effective_model =
                   resolve_model_id_with_profile(snap, q.request.model, complexity,
                                                 profile_override,
                                                 Unwrap(q.log_entry.agentic_mode))
       /\ \A i \in 1..Len(q.contacted) : C38_EnabledIn(snap, q.contacted[i].id)
       /\ q.pin_sent => C38_EnabledIn(snap, q.pinned.provider_id)
       /\ q.set_seq > 0 => UnwrapOr(snap.session, SessionConfigDefault).enabled

\* C38: a chat-completion request reads the live Config once, at its start,
\* and takes its session, cache, scorer and routing decisions and the
\* providers it contacts from that snapshot; an update_config that completes
\* while it is in flight changes none of them, and a session-pinned forward
\* goes to a provider enabled in the snapshot of the request.
C38_DecisionsFromSnapshot ==
    \A r \in Reqs : rq[r].pc # "idle" => C38_FromSnapshot(rq[r])

\* the config a request holds changes at no step after its start
C38_SnapshotKept ==
    [][\A r \in Reqs : rq[r].pc # "idle" => rq'[r].config = rq[r].config]_vars

\* C38, whole: the snapshot of a request is the config it read at its start
\* at every later step, and every decision it takes is the one that snapshot
\* gives, whatever update_config has made of the live config since.
C38_ConfigReadOnceAtStart == [](C38_DecisionsFromSnapshot) /\ C38_SnapshotKept

\* a request made a pinned forward to a provider that the live config had
\* disabled while the request was in flight
C38_Witness ==
    \E r \in Reqs :
        /\ rq[r].pc = "done"
        /\ rq[r].pin_sent
        /\ rq[r].config # config
        /\ ~C38_EnabledIn(config, rq[r].pinned.provider_id)

\* a request wrote the cache entry of its snapshot after the live config had
\* switched the cache off
C38_WitnessCache ==
    \E r \in Reqs :
        /\ rq[r].cache_wrote
        /\ rq[r].scored
        /\ rq[r].put_at # Some(rq[r].start)
        /\ config.cache = None

\* a request that started under a config with the pinned provider disabled
\* took the fan-out although the live config enables the provider again
C38_WitnessNotPinned ==
    \E r \in Reqs :
        /\ rq[r].routed /\ ~rq[r].pin_sent
        /\ IsSome(rq[r].session_id)
        /\ Unwrap(rq[r].session_id) \in DOMAIN sessions
        /\ sessions[Unwrap(rq[r].session_id)].provider_id = "p2"
        /\ ~C38_EnabledIn(rq[r].config, "p2")
        /\ C38_EnabledIn(config, "p2")

\* the save of poster p ends at this step with a failed write
C39_SaveFails(p) ==
    /\ rt.post[p].pc = "save"
    /\ rt'.post[p].pc = "done"
    /\ rt'.post[p].status = 500

C39_FailedSaveKeepsLive ==
    [][\A p \in Posters :
          C39_SaveFails(p) =>
              /\ config' = config
              /\ ~rt.post[p].overlapped => config' = rt.post[p].c
              /\ rt'.file \in {rt.file, BrokenFile}]_vars

C39_WitnessBroken ==
    \E p \in Posters :
        /\ rt.post[p].pc = "done"
        /\ rt.post[p].status = 500
        /\ config = rt.post[p].c
        /\ rt.file = BrokenFile
        /\ rt.boots = 0
        /\ \A o \in Posters \ {p} : rt.post[o].pc = "idle"

\* every call of update_config made so far has returned, at least one was
\* made, and the disk write of each succeeded (no client has posted a second
\* time, so each poster's record is that of its one call)
C40_AllReturnedAndWritten ==
    /\ rt.posts = 0
    /\ \A p \in Posters : rt.post[p].pc \in {"idle", "done"}
    /\ \E p \in Posters : rt.post[p].pc = "done"
    /\ \A p \in Posters : rt.post[p].pc = "done" => rt.post[p].written

\* C40: for any interleaving of concurrent update_config calls whose disk
\* writes all succeed, once all calls have returned the persisted config
\* equals the live Config: the file does not end up holding a Config older
\* than the live one.
C40_FileEqualsLiveOnceAllReturned ==
    C40_AllReturnedAndWritten =>
        /\ rt.file = JsonFile(SerConfig(config))
        /\ AppState_new(rt.file) = config

\* two calls with different bodies overlapped and both have returned: the
\* body of one of them is neither live nor in the file
C40_Witness ==
    /\ C40_AllReturnedAndWritten
    /\ \A p \in Posters : rt.post[p].pc = "done"
    /\ \E p \in Posters :
          /\ rt.post[p].overlapped
          /\ rt.post[p].c # config
          /\ rt.post[p].file = rt.file
          /\ rt.post[p].live = config

====
